---- MODULE Spec2Model ----
(***************************************************************************)
(* GitLab merge-request MCP server (src/index.js).                         *)
(*                                                                         *)
(* src/index.js holds two variants of the server:                          *)
(*   "js": lines 1-515, a low-level Server with one CallToolRequestSchema  *)
(*         handler that switches on the tool name;                         *)
(*   "ts": lines 516-1006, an McpServer with one registerTool callback per *)
(*         tool, whose handlers check their required arguments.            *)
(* Both are modelled; the variable `variant` says which one is running.    *)
(*                                                                         *)
(* JavaScript values are tagged records, JSON.stringify produces the       *)
(* sequence of tokens of the JSON text (whitespace left out), and a text   *)
(* built by a template literal is the concatenation of its pieces.         *)
(***************************************************************************)
EXTENDS Integers, Sequences, FiniteSets, TLC

VARIABLES variant, env, proc, store, inv, lastTitle, listed

vars == <<variant, env, proc, store, inv, lastTitle, listed>>

(***************************************************************************)
(* JavaScript values                                                       *)
(***************************************************************************)
Undef == [t |-> "undefined"]
Null == [t |-> "null"]
NaN == [t |-> "NaN"]
Num(n) == [t |-> "number", n |-> n]
Str(s) == [t |-> "string", s |-> s]
Bool(b) == [t |-> "boolean", b |-> b]
Arr(items) == [t |-> "array", items |-> items]
\* An object: its own keys in insertion order and the value of each.
Obj(keys, val) == [t |-> "object", keys |-> keys, val |-> val]

Range(seq) == {seq[i] : i \in DOMAIN seq}

\* The object literal { keys[1]: vals[1], keys[2]: vals[2], ... }.
Rec(keys, vals) ==
  Obj(keys, [k \in Range(keys) |-> vals[CHOOSE i \in DOMAIN keys : keys[i] = k]])

\* v.k for an object v (undefined when v has no own property k).
GetProp(v, k) ==
  IF v.t = "object" /\ k \in Range(v.keys) THEN v.val[k] ELSE Undef

\* v is undefined or null: v.k throws a TypeError, v?.k is undefined.
Nullish(v) == v.t \in {"undefined", "null"}

\* v?.k
OptChain(v, k) == IF Nullish(v) THEN Undef ELSE GetProp(v, k)

\* ToBoolean(v): what `!v`, `v ? a : b` and `v || d` test.
Truthy(v) ==
  CASE v.t \in {"undefined", "null", "NaN"} -> FALSE
    [] v.t = "boolean" -> v.b
    [] v.t = "number" -> v.n # 0
    [] v.t = "string" -> v.s # ""
    [] OTHER -> TRUE

\* `${v}` inside a template literal.
TemplateString(v) ==
  CASE v.t = "string" -> <<v.s>>
    [] v.t = "number" -> <<ToString(v.n)>>
    [] v.t = "boolean" -> <<IF v.b THEN "true" ELSE "false">>
    [] v.t = "object" -> <<"[object Object]">>
    [] OTHER -> <<v.t>>

Quote(s) == "\"" \o s \o "\""

RECURSIVE JoinComma(_)
\* The token sequences of parts, separated by commas.
JoinComma(parts) ==
  IF Len(parts) = 0 THEN <<>>
  ELSE IF Len(parts) = 1 THEN parts[1]
  ELSE parts[1] \o <<",">> \o JoinComma(Tail(parts))

RECURSIVE JSONstringify(_)
\* JSON.stringify(v, null, 2) for a v that is not undefined: the tokens of the
\* text. A member whose value is undefined is left out of an object and is
\* null in an array; NaN is null.
JSONstringify(v) ==
  CASE v.t \in {"null", "NaN", "undefined"} -> <<"null">>
    [] v.t = "boolean" -> <<IF v.b THEN "true" ELSE "false">>
    [] v.t = "number" -> <<ToString(v.n)>>
    [] v.t = "string" -> <<Quote(v.s)>>
    [] v.t = "array" ->
         <<"[">> \o
         JoinComma([i \in DOMAIN v.items |-> JSONstringify(v.items[i])]) \o
         <<"]">>
    [] v.t = "object" ->
         LET ks == SelectSeq(v.keys, LAMBDA k : v.val[k].t # "undefined")
         IN <<"{">> \o
            JoinComma([i \in DOMAIN ks |->
                         <<Quote(ks[i]), ":">> \o JSONstringify(v.val[ks[i]])]) \o
            <<"}">>

(***************************************************************************)
(* Errors and results                                                      *)
(***************************************************************************)
\* new Error(message): no cause.
Error(message) == [message |-> message, cause |-> Undef]

\* A TypeError raised by the runtime.
TypeError(message) == [message |-> message, cause |-> Undef]

TextResult(text) == [content |-> <<[type |-> "text", text |-> text]>>]

formatErrorResponseNoFallback(error) ==
  [content |-> <<[type |-> "text",
                  text |-> <<"Error: ">> \o error.message \o <<" - ">> \o
                           TemplateString(OptChain(error.cause, "description"))]>>,
   isError |-> TRUE]

formatErrorResponse(error) ==
  LET description == OptChain(error.cause, "description")
      detail == IF Truthy(description) THEN TemplateString(description)
                ELSE <<"No additional details">>
  IN [content |-> <<[type |-> "text",
                     text |-> <<"Error: ">> \o error.message \o <<" - ">> \o detail]>>,
      isError |-> TRUE]

(***************************************************************************)
(* What a handler does up to its one `await`, and after it                 *)
(***************************************************************************)
\* The handler throws e (a rejected promise of the async function).
Throw(e) == [k |-> "throw", error |-> e]
\* The handler issues the provider call and suspends at `await`.
Await(fn, params) == [k |-> "await", call |-> [fn |-> fn, params |-> params]]
\* The handler returns the result r.
Return(r) == [k |-> "return", result |-> r]

\* The object literal { f1: o.f1, f2: o.f2, ... }: a field o lacks is undefined.
Pick(o, fields) == Rec(fields, [i \in DOMAIN fields |-> GetProp(o, fields[i])])

\* A map that loses the last element of the list.
MapPickDropsLast(list, fields) ==
  Arr([i \in 1..(Len(list.items) - 1) |-> Pick(list.items[i], fields)])

\* list.map(o => ({ f1: o.f1, ... }))
MapPick(list, fields) ==
  Arr([i \in DOMAIN list.items |-> Pick(list.items[i], fields)])

\* A destructuring that ignores args.verbose.
VerboseOfAlwaysFalse(args) == Bool(FALSE)

\* `{ verbose = false } = args`: the default applies when args.verbose is undefined.
VerboseOf(args) ==
  IF GetProp(args, "verbose").t = "undefined" THEN Bool(FALSE)
  ELSE GetProp(args, "verbose")

\* The property the handlers destructure with a default value (`verbose = false`).
HasDefault(p) == p = "verbose"

\* Reading property p of undefined.
ReadPropertyError(p) ==
  TypeError(<<"Cannot read properties of undefined (reading '", p, "')">>)

\* Destructuring `{ p, ... }` in a parameter list, from an args that is undefined;
\* p is the first property of the pattern. The runtime names the destructuring
\* when p has no default value, and the read of p when it has one.
DestructureParamError(p) ==
  IF HasDefault(p) THEN ReadPropertyError(p)
  ELSE TypeError(<<"Cannot destructure property '", p,
                   "' of 'undefined' as it is undefined.">>)

\* Destructuring `const { p, ... } = args` from an args that is undefined.
DestructureArgsError(p) ==
  IF HasDefault(p) THEN ReadPropertyError(p)
  ELSE TypeError(<<"Cannot destructure property '", p,
                   "' of 'args' as it is undefined.">>)

\* note.author.name where note.author is undefined.
ReadNameError == TypeError(<<"Cannot read properties of undefined (reading '", "name", "')">>)

\* parseInt(s, 10) on the strings the configuration holds in this model.
ParseInt(s) ==
  CASE s = "10" -> Num(10)
    [] s = "30" -> Num(30)
    [] s = "40" -> Num(40)
    [] OTHER -> NaN

ProjectFields ==
  <<"id", "description", "name", "path", "path_with_namespace", "web_url",
    "default_branch">>
MergeRequestFields ==
  <<"iid", "project_id", "title", "description", "state", "web_url">>
MergeRequestDetailsFieldsNoTitle ==
  <<"description", "state", "web_url", "target_branch", "source_branch",
    "merge_status", "detailed_merge_status", "diff_refs">>
MergeRequestDetailsFields ==
  <<"title", "description", "state", "web_url", "target_branch", "source_branch",
    "merge_status", "detailed_merge_status", "diff_refs">>
IssueFields == <<"title", "description">>

RECURSIVE FlatNotes(_)
\* discussions.flatMap(note => note.notes), each discussion holding a notes array.
FlatNotes(discussions) ==
  IF Len(discussions) = 0 THEN <<>>
  ELSE GetProp(discussions[1], "notes").items \o FlatNotes(Tail(discussions))

\* .filter(note => note.resolved === false)
UnresolvedNotes(discussions) ==
  SelectSeq(FlatNotes(discussions.items),
            LAMBDA note : GetProp(note, "resolved") = Bool(FALSE))

\* .filter(note => note.type === kind)
NotesOfType(notes, kind) ==
  SelectSeq(notes, LAMBDA note : GetProp(note, "type") = Str(kind))

(***************************************************************************)
(* The handlers of the "js" variant (src/index.js 349-502): no handler     *)
(* checks its arguments.                                                   *)
(***************************************************************************)
\* { membership: true, ...projectFilter } from process.env.
ProjectFilterJS ==
  Rec(<<"membership">> \o
      (IF Truthy(env.minAccessLevel) THEN <<"minAccessLevel">> ELSE <<>>) \o
      (IF Truthy(env.projectSearchTerm) THEN <<"search">> ELSE <<>>),
      <<Bool(TRUE)>> \o
      (IF Truthy(env.minAccessLevel) THEN <<ParseInt(env.minAccessLevel.s)>> ELSE <<>>) \o
      (IF Truthy(env.projectSearchTerm) THEN <<env.projectSearchTerm>> ELSE <<>>))

\* A handler that lets the caller's search argument into the filter.
getProjectsJSSpreadsArgs(args) ==
  IF Nullish(args) THEN Throw(DestructureParamError("verbose"))
  ELSE IF GetProp(args, "search") = Undef THEN Await("Projects.all", <<ProjectFilterJS>>)
  ELSE Await("Projects.all",
             <<Rec(<<"membership", "search">>, <<Bool(TRUE), GetProp(args, "search")>>)>>)

getProjectsJS(args) ==
  IF Nullish(args) THEN Throw(DestructureParamError("verbose"))
  ELSE Await("Projects.all", <<ProjectFilterJS>>)

ProjectsTextAlwaysJSON(filteredProjects) == JSONstringify(filteredProjects)

\* Array.isArray(filteredProjects) && filteredProjects.length > 0 ? ... : ...
ProjectsText(filteredProjects) ==
  IF filteredProjects.t = "array" /\ Len(filteredProjects.items) > 0
  THEN JSONstringify(filteredProjects)
  ELSE <<"No projects found.">>

getProjectsJSResume(args, projects) ==
  LET filteredProjects == IF Truthy(VerboseOf(args)) THEN projects
                          ELSE MapPick(projects, ProjectFields)
  IN Return(TextResult(ProjectsText(filteredProjects)))

listOpenMergeRequestsJS(args) ==
  IF Nullish(args) THEN Throw(DestructureParamError("verbose"))
  ELSE Await("MergeRequests.all",
             <<Rec(<<"projectId", "state">>,
                   <<GetProp(args, "project_id"), Str("opened")>>)>>)

listOpenMergeRequestsJSResume(args, mergeRequests) ==
  LET filteredMergeRequests == IF Truthy(VerboseOf(args)) THEN mergeRequests
                               ELSE MapPick(mergeRequests, MergeRequestFields)
  IN Return(TextResult(JSONstringify(filteredMergeRequests)))

getMergeRequestDetailsJS(args) ==
  IF Nullish(args) THEN Throw(DestructureParamError("project_id"))
  ELSE Await("MergeRequests.show",
             <<GetProp(args, "project_id"), GetProp(args, "merge_request_iid")>>)

getMergeRequestDetailsJSResume(args, mr) ==
  LET filteredMr == IF Truthy(VerboseOf(args)) THEN mr
                    ELSE Pick(mr, MergeRequestDetailsFields)
  IN Return(TextResult(JSONstringify(filteredMr)))

getMergeRequestCommentsJS(args) ==
  IF Nullish(args) THEN Throw(DestructureParamError("project_id"))
  ELSE Await("MergeRequestDiscussions.all",
             <<GetProp(args, "project_id"), GetProp(args, "merge_request_iid")>>)

\* note => ({ id, noteable_id, body, author_name: note.author.name [, position] })
NoteEntryJS(note, withPosition) ==
  Rec(<<"id", "noteable_id", "body", "author_name">> \o
      (IF withPosition THEN <<"position">> ELSE <<>>),
      <<GetProp(note, "id"), GetProp(note, "noteable_id"), GetProp(note, "body"),
        GetProp(GetProp(note, "author"), "name")>> \o
      (IF withPosition THEN <<GetProp(note, "position")>> ELSE <<>>))

getMergeRequestCommentsJSResume(args, discussions) ==
  IF Truthy(VerboseOf(args)) THEN Return(TextResult(JSONstringify(discussions)))
  ELSE
    LET unresolvedNotes == UnresolvedNotes(discussions)
        discussionKind == NotesOfType(unresolvedNotes, "DiscussionNote")
        diffKind == NotesOfType(unresolvedNotes, "DiffNote")
    IN IF \E note \in Range(discussionKind) \cup Range(diffKind) :
            Nullish(GetProp(note, "author"))
       THEN Throw(ReadNameError)
       ELSE
         LET disscussionNotes ==
               Arr([i \in DOMAIN discussionKind |-> NoteEntryJS(discussionKind[i], FALSE)])
             diffNotes ==
               Arr([i \in DOMAIN diffKind |-> NoteEntryJS(diffKind[i], TRUE)])
         IN Return(TextResult(JSONstringify(
              Rec(<<"disscussionNotes", "diffNotes">>, <<disscussionNotes, diffNotes>>))))

addMergeRequestCommentJS(args) ==
  IF Nullish(args) THEN Throw(DestructureParamError("project_id"))
  ELSE Await("MergeRequestDiscussions.create",
             <<GetProp(args, "project_id"), GetProp(args, "merge_request_iid"),
               GetProp(args, "comment")>>)

addMergeRequestCommentJSResume(args, note) ==
  Return(TextResult(JSONstringify(note)))

\* { position: { base_sha, start_sha, head_sha, old_path, new_path, position_type, new_line } }
DiffPositionJS(args) ==
  Rec(<<"position">>,
      <<Rec(<<"base_sha", "start_sha", "head_sha", "old_path", "new_path",
              "position_type", "new_line">>,
            <<GetProp(args, "base_sha"), GetProp(args, "start_sha"),
              GetProp(args, "head_sha"), GetProp(args, "file_path"),
              GetProp(args, "file_path"), Str("text"),
              GetProp(args, "line_number")>>)>>)

addMergeRequestDiffCommentJS(args) ==
  IF Nullish(args) THEN Throw(DestructureParamError("project_id"))
  ELSE Await("MergeRequestDiscussions.create",
             <<GetProp(args, "project_id"), GetProp(args, "merge_request_iid"),
               GetProp(args, "comment"), DiffPositionJS(args)>>)

addMergeRequestDiffCommentJSResume(args, discussion) ==
  Return(TextResult(JSONstringify(discussion)))

getMergeRequestDiffJS(args) ==
  IF Nullish(args) THEN Throw(DestructureParamError("project_id"))
  ELSE Await("MergeRequests.allDiffs",
             <<GetProp(args, "project_id"), GetProp(args, "merge_request_iid")>>)

\* Array.isArray(diff) && diff.length > 0 ? JSON.stringify(diff) : "No diff data ..."
DiffText(diff) ==
  IF diff.t = "array" /\ Len(diff.items) > 0 THEN JSONstringify(diff)
  ELSE <<"No diff data available for this merge request.">>

getMergeRequestDiffJSResume(args, diff) == Return(TextResult(DiffText(diff)))

getIssueDetailsJS(args) ==
  IF Nullish(args) THEN Throw(DestructureParamError("project_id"))
  ELSE Await("Issues.show",
             <<GetProp(args, "issue_iid"),
               Rec(<<"projectId">>, <<GetProp(args, "project_id")>>)>>)

getIssueDetailsJSResume(args, issue) ==
  LET filteredIssue == IF Truthy(VerboseOf(args)) THEN issue
                       ELSE Pick(issue, IssueFields)
  IN Return(TextResult(JSONstringify(filteredIssue)))

setMergeRequestDescriptionJS(args) ==
  IF Nullish(args) THEN Throw(DestructureParamError("project_id"))
  ELSE Await("MergeRequests.edit",
             <<GetProp(args, "project_id"), GetProp(args, "merge_request_iid"),
               Rec(<<"description">>, <<GetProp(args, "description")>>)>>)

setMergeRequestDescriptionJSResume(args, mr) ==
  Return(TextResult(JSONstringify(mr)))

setMergeRequestTitleJS(args) ==
  IF Nullish(args) THEN Throw(DestructureParamError("project_id"))
  ELSE Await("MergeRequests.edit",
             <<GetProp(args, "project_id"), GetProp(args, "merge_request_iid"),
               Rec(<<"title">>, <<GetProp(args, "title")>>)>>)

setMergeRequestTitleJSResume(args, mr) ==
  Return(TextResult(JSONstringify(mr)))

(***************************************************************************)
(* The handlers of the "ts" variant (src/index.js 775-987): a handler      *)
(* throws when `!x` holds of one of its required arguments.                *)
(***************************************************************************)
\* { membership: true, ...projectFilter } from config.
ProjectFilterTS ==
  Rec(<<"membership">> \o
      (IF Truthy(env.minAccessLevel) THEN <<"minAccessLevel">> ELSE <<>>) \o
      (IF Truthy(env.projectSearchTerm) THEN <<"search">> ELSE <<>>),
      <<Bool(TRUE)>> \o
      (IF Truthy(env.minAccessLevel) THEN <<ParseInt(env.minAccessLevel.s)>> ELSE <<>>) \o
      (IF Truthy(env.projectSearchTerm) THEN <<env.projectSearchTerm>> ELSE <<>>))

\* `!a || !b || ...` over the named arguments.
AnyFalsy(args, names) == \E i \in DOMAIN names : ~Truthy(GetProp(args, names[i]))

getProjectsTS(args) ==
  IF Nullish(args) THEN Throw(DestructureArgsError("verbose"))
  ELSE Await("Projects.all", <<ProjectFilterTS>>)

getProjectsTSResume(args, projects) ==
  LET filteredProjects == IF Truthy(VerboseOf(args)) THEN projects
                          ELSE MapPick(projects, ProjectFields)
  IN Return(TextResult(ProjectsText(filteredProjects)))

listOpenMergeRequestsTS(args) ==
  IF Nullish(args) THEN Throw(DestructureArgsError("verbose"))
  ELSE IF AnyFalsy(args, <<"project_id">>)
  THEN Throw(Error(<<"project_id", " is required">>))
  ELSE Await("MergeRequests.all",
             <<Rec(<<"projectId", "state">>,
                   <<GetProp(args, "project_id"), Str("opened")>>)>>)

listOpenMergeRequestsTSResume(args, mergeRequests) ==
  LET filteredMergeRequests == IF Truthy(VerboseOf(args)) THEN mergeRequests
                               ELSE MapPick(mergeRequests, MergeRequestFields)
  IN Return(TextResult(JSONstringify(filteredMergeRequests)))

getMergeRequestDetailsTS(args) ==
  IF Nullish(args) THEN Throw(DestructureArgsError("project_id"))
  ELSE IF AnyFalsy(args, <<"project_id", "merge_request_iid">>)
  THEN Throw(Error(<<"project_id", " and ", "merge_request_iid", " are required">>))
  ELSE Await("MergeRequests.show",
             <<GetProp(args, "project_id"), GetProp(args, "merge_request_iid")>>)

getMergeRequestDetailsTSResume(args, mr) ==
  LET filteredMr == IF Truthy(VerboseOf(args)) THEN mr
                    ELSE Pick(mr, MergeRequestDetailsFields)
  IN Return(TextResult(JSONstringify(filteredMr)))

getMergeRequestCommentsTS(args) ==
  IF Nullish(args) THEN Throw(DestructureArgsError("project_id"))
  ELSE IF AnyFalsy(args, <<"project_id", "merge_request_iid">>)
  THEN Throw(Error(<<"project_id", " and ", "merge_request_iid", " are required">>))
  ELSE Await("MergeRequestDiscussions.all",
             <<GetProp(args, "project_id"), GetProp(args, "merge_request_iid")>>)

\* note => ({ id, noteable_id, body, author_name: note.author?.name [, position] })
NoteEntryTS(note, withPosition) ==
  Rec(<<"id", "noteable_id", "body", "author_name">> \o
      (IF withPosition THEN <<"position">> ELSE <<>>),
      <<GetProp(note, "id"), GetProp(note, "noteable_id"), GetProp(note, "body"),
        OptChain(GetProp(note, "author"), "name")>> \o
      (IF withPosition THEN <<GetProp(note, "position")>> ELSE <<>>))

getMergeRequestCommentsTSResume(args, discussions) ==
  IF Truthy(VerboseOf(args)) THEN Return(TextResult(JSONstringify(discussions)))
  ELSE
    LET unresolvedNotes == UnresolvedNotes(discussions)
        discussionKind == NotesOfType(unresolvedNotes, "DiscussionNote")
        diffKind == NotesOfType(unresolvedNotes, "DiffNote")
        disscussionNotes ==
          Arr([i \in DOMAIN discussionKind |-> NoteEntryTS(discussionKind[i], FALSE)])
        diffNotes ==
          Arr([i \in DOMAIN diffKind |-> NoteEntryTS(diffKind[i], TRUE)])
    IN Return(TextResult(JSONstringify(
         Rec(<<"disscussionNotes", "diffNotes">>, <<disscussionNotes, diffNotes>>))))

addMergeRequestCommentTS(args) ==
  IF Nullish(args) THEN Throw(DestructureParamError("project_id"))
  ELSE IF AnyFalsy(args, <<"project_id", "merge_request_iid", "comment">>)
  THEN Throw(Error(<<"project_id", ", ", "merge_request_iid", ", and ", "comment",
                     " are required">>))
  ELSE Await("MergeRequestDiscussions.create",
             <<GetProp(args, "project_id"), GetProp(args, "merge_request_iid"),
               GetProp(args, "comment")>>)

addMergeRequestCommentTSResume(args, note) ==
  Return(TextResult(JSONstringify(note)))

\* { position: { baseSha, startSha, headSha, oldPath, newPath, positionType, newLine } }
DiffPositionTS(args) ==
  Rec(<<"position">>,
      <<Rec(<<"baseSha", "startSha", "headSha", "oldPath", "newPath",
              "positionType", "newLine">>,
            <<GetProp(args, "base_sha"), GetProp(args, "start_sha"),
              GetProp(args, "head_sha"), GetProp(args, "file_path"),
              GetProp(args, "file_path"), Str("text"),
              GetProp(args, "line_number")>>)>>)

addMergeRequestDiffCommentTS(args) ==
  IF Nullish(args) THEN Throw(DestructureParamError("project_id"))
  ELSE IF AnyFalsy(args, <<"project_id", "merge_request_iid", "comment", "base_sha",
                           "start_sha", "head_sha", "file_path", "line_number">>)
  THEN Throw(Error(<<"project_id", ", ", "merge_request_iid", ", ", "comment", ", ",
                     "base_sha", ", ", "start_sha", ", ", "head_sha", ", ",
                     "file_path", ", and ", "line_number", " are required">>))
  ELSE Await("MergeRequestDiscussions.create",
             <<GetProp(args, "project_id"), GetProp(args, "merge_request_iid"),
               GetProp(args, "comment"), DiffPositionTS(args)>>)

addMergeRequestDiffCommentTSResume(args, discussion) ==
  Return(TextResult(JSONstringify(discussion)))

getMergeRequestDiffTS(args) ==
  IF Nullish(args) THEN Throw(DestructureParamError("project_id"))
  ELSE IF AnyFalsy(args, <<"project_id", "merge_request_iid">>)
  THEN Throw(Error(<<"project_id", " and ", "merge_request_iid", " are required">>))
  ELSE Await("MergeRequests.allDiffs",
             <<GetProp(args, "project_id"), GetProp(args, "merge_request_iid")>>)

getMergeRequestDiffTSResume(args, diff) == Return(TextResult(DiffText(diff)))

getIssueDetailsTS(args) ==
  IF Nullish(args) THEN Throw(DestructureArgsError("project_id"))
  ELSE IF AnyFalsy(args, <<"project_id", "issue_iid">>)
  THEN Throw(Error(<<"project_id", " and ", "issue_iid", " are required">>))
  ELSE Await("Issues.show",
             <<GetProp(args, "issue_iid"),
               Rec(<<"projectId">>, <<GetProp(args, "project_id")>>)>>)

getIssueDetailsTSResume(args, issue) ==
  LET filteredIssue == IF Truthy(VerboseOf(args)) THEN issue
                       ELSE Pick(issue, IssueFields)
  IN Return(TextResult(JSONstringify(filteredIssue)))

\* An edit that sends the whole editable object, the title empty.
setMergeRequestDescriptionTSSendsAll(args) ==
  IF Nullish(args) THEN Throw(DestructureParamError("project_id"))
  ELSE IF AnyFalsy(args, <<"project_id", "merge_request_iid", "description">>)
  THEN Throw(Error(<<"project_id", ", ", "merge_request_iid", ", and ", "description",
                     " are required">>))
  ELSE Await("MergeRequests.edit",
             <<GetProp(args, "project_id"), GetProp(args, "merge_request_iid"),
               Rec(<<"description", "title">>, <<GetProp(args, "description"), Str("")>>)>>)

setMergeRequestDescriptionTS(args) ==
  IF Nullish(args) THEN Throw(DestructureParamError("project_id"))
  ELSE IF AnyFalsy(args, <<"project_id", "merge_request_iid", "description">>)
  THEN Throw(Error(<<"project_id", ", ", "merge_request_iid", ", and ", "description",
                     " are required">>))
  ELSE Await("MergeRequests.edit",
             <<GetProp(args, "project_id"), GetProp(args, "merge_request_iid"),
               Rec(<<"description">>, <<GetProp(args, "description")>>)>>)

setMergeRequestDescriptionTSResume(args, mr) ==
  Return(TextResult(JSONstringify(mr)))

\* An edit that sends the whole editable object, the description empty.
setMergeRequestTitleTSSendsAll(args) ==
  IF Nullish(args) THEN Throw(DestructureParamError("project_id"))
  ELSE IF AnyFalsy(args, <<"project_id", "merge_request_iid", "title">>)
  THEN Throw(Error(<<"project_id", ", ", "merge_request_iid", ", and ", "title",
                     " are required">>))
  ELSE Await("MergeRequests.edit",
             <<GetProp(args, "project_id"), GetProp(args, "merge_request_iid"),
               Rec(<<"title", "description">>, <<GetProp(args, "title"), Str("")>>)>>)

setMergeRequestTitleTS(args) ==
  IF Nullish(args) THEN Throw(DestructureParamError("project_id"))
  ELSE IF AnyFalsy(args, <<"project_id", "merge_request_iid", "title">>)
  THEN Throw(Error(<<"project_id", ", ", "merge_request_iid", ", and ", "title",
                     " are required">>))
  ELSE Await("MergeRequests.edit",
             <<GetProp(args, "project_id"), GetProp(args, "merge_request_iid"),
               Rec(<<"title">>, <<GetProp(args, "title")>>)>>)

setMergeRequestTitleTSResume(args, mr) ==
  Return(TextResult(JSONstringify(mr)))

(***************************************************************************)
(* Dispatch                                                                *)
(***************************************************************************)
\* A registry that lacks the last descriptor.
ToolNamesWithoutSetTitle ==
  <<"get_projects", "list_open_merge_requests", "get_merge_request_details",
    "get_merge_request_comments", "add_merge_request_comment",
    "add_merge_request_diff_comment", "get_merge_request_diff", "get_issue_details",
    "set_merge_request_description">>

\* The names of the tools array / of the registerTool calls, in order.
ToolNames ==
  <<"get_projects", "list_open_merge_requests", "get_merge_request_details",
    "get_merge_request_comments", "add_merge_request_comment",
    "add_merge_request_diff_comment", "get_merge_request_diff", "get_issue_details",
    "set_merge_request_description", "set_merge_request_title">>

\* A handler was entered (handler: its name) and did `out`; handler "none": no
\* handler was entered.
Ran(handler, out) == [handler |-> handler, out |-> out]

SwitchDefaultJSReturnsNothing(name) == Ran("none", Return(TextResult(<<"null">>)))

\* default: throw new Error(`Unknown tool: ${name}`)
SwitchDefaultJS(name) == Ran("none", Throw(Error(<<"Unknown tool: ", name>>)))

\* switch (name) { case ...: result = await handler(args); ... default: throw }
SwitchJS(name, args) ==
  CASE name = "get_projects" -> Ran("getProjects", getProjectsJS(args))
    [] name = "list_open_merge_requests" ->
         Ran("listOpenMergeRequests", listOpenMergeRequestsJS(args))
    [] name = "get_merge_request_details" ->
         Ran("getMergeRequestDetails", getMergeRequestDetailsJS(args))
    [] name = "get_merge_request_comments" ->
         Ran("getMergeRequestComments", getMergeRequestCommentsJS(args))
    [] name = "add_merge_request_comment" ->
         Ran("addMergeRequestComment", addMergeRequestCommentJS(args))
    [] name = "add_merge_request_diff_comment" ->
         Ran("addMergeRequestDiffComment", addMergeRequestDiffCommentJS(args))
    [] name = "get_merge_request_diff" ->
         Ran("getMergeRequestDiff", getMergeRequestDiffJS(args))
    [] name = "get_issue_details" ->
         Ran("getIssueDetails", getIssueDetailsJS(args))
    [] name = "set_merge_request_description" ->
         Ran("setMergeRequestDescription", setMergeRequestDescriptionJS(args))
    [] name = "set_merge_request_title" ->
         Ran("setMergeRequestTitle", setMergeRequestTitleJS(args))
    [] OTHER -> SwitchDefaultJS(name)

\* The same switch, resumed when the provider call of the handler resolves with value.
SwitchJSResume(name, args, value) ==
  CASE name = "get_projects" -> getProjectsJSResume(args, value)
    [] name = "list_open_merge_requests" -> listOpenMergeRequestsJSResume(args, value)
    [] name = "get_merge_request_details" -> getMergeRequestDetailsJSResume(args, value)
    [] name = "get_merge_request_comments" -> getMergeRequestCommentsJSResume(args, value)
    [] name = "add_merge_request_comment" -> addMergeRequestCommentJSResume(args, value)
    [] name = "add_merge_request_diff_comment" ->
         addMergeRequestDiffCommentJSResume(args, value)
    [] name = "get_merge_request_diff" -> getMergeRequestDiffJSResume(args, value)
    [] name = "get_issue_details" -> getIssueDetailsJSResume(args, value)
    [] name = "set_merge_request_description" ->
         setMergeRequestDescriptionJSResume(args, value)
    [] name = "set_merge_request_title" -> setMergeRequestTitleJSResume(args, value)

\* The callback registerTool gives each name: `return await handler(args)`.
RegisteredToolTS(name, args) ==
  CASE name = "get_projects" -> Ran("getProjects", getProjectsTS(args))
    [] name = "list_open_merge_requests" ->
         Ran("listOpenMergeRequests", listOpenMergeRequestsTS(args))
    [] name = "get_merge_request_details" ->
         Ran("getMergeRequestDetails", getMergeRequestDetailsTS(args))
    [] name = "get_merge_request_comments" ->
         Ran("getMergeRequestComments", getMergeRequestCommentsTS(args))
    [] name = "add_merge_request_comment" ->
         Ran("addMergeRequestComment", addMergeRequestCommentTS(args))
    [] name = "add_merge_request_diff_comment" ->
         Ran("addMergeRequestDiffComment", addMergeRequestDiffCommentTS(args))
    [] name = "get_merge_request_diff" ->
         Ran("getMergeRequestDiff", getMergeRequestDiffTS(args))
    [] name = "get_issue_details" ->
         Ran("getIssueDetails", getIssueDetailsTS(args))
    [] name = "set_merge_request_description" ->
         Ran("setMergeRequestDescription", setMergeRequestDescriptionTS(args))
    [] name = "set_merge_request_title" ->
         Ran("setMergeRequestTitle", setMergeRequestTitleTS(args))

RegisteredToolTSResume(name, args, value) ==
  CASE name = "get_projects" -> getProjectsTSResume(args, value)
    [] name = "list_open_merge_requests" -> listOpenMergeRequestsTSResume(args, value)
    [] name = "get_merge_request_details" -> getMergeRequestDetailsTSResume(args, value)
    [] name = "get_merge_request_comments" -> getMergeRequestCommentsTSResume(args, value)
    [] name = "add_merge_request_comment" -> addMergeRequestCommentTSResume(args, value)
    [] name = "add_merge_request_diff_comment" ->
         addMergeRequestDiffCommentTSResume(args, value)
    [] name = "get_merge_request_diff" -> getMergeRequestDiffTSResume(args, value)
    [] name = "get_issue_details" -> getIssueDetailsTSResume(args, value)
    [] name = "set_merge_request_description" ->
         setMergeRequestDescriptionTSResume(args, value)
    [] name = "set_merge_request_title" -> setMergeRequestTitleTSResume(args, value)

CatchRethrows(out) == out

\* try { ... return result } catch (error) { return formatErrorResponse(error) }
Catch(out) ==
  IF out.k = "throw" THEN Return(formatErrorResponse(out.error)) ELSE out

(***************************************************************************)
(* The provider (GitLab behind @gitbeaker/rest): an external collaborator. *)
(* It holds one merge request that edits change (project 1, iid 1); what   *)
(* it returns for the other calls is drawn from small sets.                *)
(***************************************************************************)
MaxList == 2

RECURSIVE SeqsUpTo(_, _)
\* The sequences over S of length at most n.
SeqsUpTo(S, n) ==
  IF n = 0 THEN {<<>>}
  ELSE LET shorter == SeqsUpTo(S, n - 1)
       IN shorter \cup {Append(q, x) : q \in {r \in shorter : Len(r) = n - 1}, x \in S}

ProjectPool ==
  { Rec(<<"id", "description", "name", "path", "path_with_namespace", "web_url",
          "default_branch", "visibility">>,
        <<Num(1), Str("Core"), Str("core"), Str("core"), Str("acme/core"),
          Str("https://gitlab/acme/core"), Str("main"), Str("private")>>),
    \* an empty repository: no default_branch, and a null description
    Rec(<<"id", "description", "name", "path", "path_with_namespace", "web_url">>,
        <<Num(2), Null, Str("docs"), Str("docs"), Str("acme/docs"),
          Str("https://gitlab/acme/docs")>>) }

Author == Rec(<<"id", "name">>, <<Num(5), Str("Ada")>>)
Position ==
  Rec(<<"base_sha", "head_sha", "new_path", "new_line">>,
      <<Str("a1"), Str("c3"), Str("src/main.ts"), Num(42)>>)

NotePool ==
  { \* an unresolved plain comment
    Rec(<<"id", "type", "body", "author", "noteable_id", "resolvable", "resolved">>,
        <<Num(11), Str("DiscussionNote"), Str("why?"), Author, Num(7), Bool(TRUE),
          Bool(FALSE)>>),
    \* an unresolved line comment
    Rec(<<"id", "type", "body", "author", "noteable_id", "position", "resolvable",
          "resolved">>,
        <<Num(12), Str("DiffNote"), Str("nit"), Author, Num(7), Position, Bool(TRUE),
          Bool(FALSE)>>),
    \* a resolved line comment
    Rec(<<"id", "type", "body", "author", "noteable_id", "position", "resolvable",
          "resolved">>,
        <<Num(13), Str("DiffNote"), Str("done"), Author, Num(7), Position, Bool(TRUE),
          Bool(TRUE)>>),
    \* a resolved plain comment
    Rec(<<"id", "type", "body", "author", "noteable_id", "resolvable", "resolved">>,
        <<Num(14), Str("DiscussionNote"), Str("ok"), Author, Num(7), Bool(TRUE),
          Bool(TRUE)>>),
    \* an individual note: no type, not resolvable, no resolved field
    Rec(<<"id", "type", "body", "author", "noteable_id", "resolvable">>,
        <<Num(15), Null, Str("fyi"), Author, Num(7), Bool(FALSE)>>),
    \* an unresolved plain comment that carries no author
    Rec(<<"id", "type", "body", "noteable_id", "resolvable", "resolved">>,
        <<Num(16), Str("DiscussionNote"), Str("ghost"), Num(7), Bool(TRUE),
          Bool(FALSE)>>) }

\* A discussion holds one note; the first kind of discussion holds a thread of two.
DiscussionPool ==
  {Rec(<<"id", "notes">>, <<Str("d"), Arr(<<n>>)>>) : n \in NotePool} \cup
  {Rec(<<"id", "notes">>,
       <<Str("thread"),
         Arr(<<CHOOSE n \in NotePool : GetProp(n, "id") = Num(12),
               CHOOSE n \in NotePool : GetProp(n, "id") = Num(14)>>)>>)}

DiffPool ==
  { Rec(<<"old_path", "new_path", "diff", "new_file">>,
        <<Str("src/main.ts"), Str("src/main.ts"), Str("@@ -1 +1 @@"), Bool(FALSE)>>),
    Rec(<<"old_path", "new_path", "diff", "new_file">>,
        <<Str("a.md"), Str("b.md"), Str(""), Bool(FALSE)>>) }

IssuePool ==
  { Rec(<<"iid", "title", "description", "state">>,
        <<Num(1), Str("Crash"), Str("steps"), Str("opened")>>),
    \* an issue the provider returns without a description
    Rec(<<"iid", "title", "state">>, <<Num(1), Str("Typo"), Str("opened")>>) }

\* The errors a provider call rejects with: a message and an optional cause.
ProviderErrors ==
  { [message |-> <<"Not Found">>,
     cause |-> Rec(<<"description">>, <<Str("404 Not Found")>>)],
    [message |-> <<"Bad Request">>,
     cause |-> Rec(<<"description">>, <<Str("")>>)],
    [message |-> <<"Unauthorized">>, cause |-> Rec(<<"response">>, <<Num(401)>>)],
    [message |-> <<"fetch failed">>, cause |-> Undef] }

\* The merge request the provider holds, as it returns it.
MergeRequestObject(st) ==
  Rec(<<"id", "iid", "project_id", "title", "description", "state", "web_url",
        "target_branch", "source_branch", "merge_status", "detailed_merge_status",
        "diff_refs", "author">>,
      <<Num(101), Num(1), Num(1), st.title, st.description, Str("opened"),
        Str("https://gitlab/acme/core/-/merge_requests/1"), Str("main"),
        Str("feature"), Str("can_be_merged"), Str("mergeable"),
        Rec(<<"base_sha", "head_sha", "start_sha">>, <<Str("a1"), Str("c3"), Str("b2")>>),
        Author>>)

\* A second open merge request of the project, which no request of the model edits.
OtherMergeRequest ==
  Rec(<<"id", "iid", "project_id", "title", "state", "web_url">>,
      <<Num(102), Num(2), Num(1), Str("Bump deps"), Str("opened"),
        Str("https://gitlab/acme/core/-/merge_requests/2")>>)

TheMR(p, iid) == p = Num(1) /\ iid = Num(1)

\* The fields of an edit that carry a value.
EditFields(fields) == {k \in Range(fields.keys) : fields.val[k].t # "undefined"}

ApplyEdit(st, fields) ==
  [k \in DOMAIN st |-> IF k \in EditFields(fields) THEN fields.val[k] ELSE st[k]]

Ok(value, st) == [ok |-> TRUE, value |-> value, store |-> st]
Failed(e) == [ok |-> FALSE, error |-> e]

\* What the provider may answer to a call, given its state st.
ProviderSuccesses(call, st) ==
  LET a == call.params IN
  CASE call.fn = "Projects.all" ->
         {Ok(Arr(l), st) : l \in SeqsUpTo(ProjectPool, MaxList)}
    [] call.fn = "MergeRequests.all" ->
         IF GetProp(a[1], "projectId") \in {Num(1), Undef}
         THEN {Ok(Arr(<<MergeRequestObject(st), OtherMergeRequest>>), st)}
         ELSE {}
    [] call.fn = "MergeRequests.show" ->
         IF TheMR(a[1], a[2]) THEN {Ok(MergeRequestObject(st), st)} ELSE {}
    [] call.fn = "MergeRequestDiscussions.all" ->
         IF TheMR(a[1], a[2])
         THEN {Ok(Arr(l), st) : l \in SeqsUpTo(DiscussionPool, MaxList)}
         ELSE {}
    [] call.fn = "MergeRequestDiscussions.create" ->
         IF TheMR(a[1], a[2]) /\ Truthy(a[3])
         THEN {Ok(Rec(<<"id", "notes">>,
                      <<Str("new"),
                        Arr(<<Rec(<<"id", "type", "body">>,
                                  <<Num(21),
                                    Str(IF Len(a) = 4 THEN "DiffNote" ELSE "DiscussionNote"),
                                    a[3]>>)>>)>>), st)}
         ELSE {}
    [] call.fn = "MergeRequests.allDiffs" ->
         IF TheMR(a[1], a[2])
         THEN {Ok(Arr(l), st) : l \in SeqsUpTo(DiffPool, MaxList)}
         ELSE {}
    [] call.fn = "Issues.show" ->
         IF a[1] = Num(1) /\ GetProp(a[2], "projectId") = Num(1)
         THEN {Ok(i, st) : i \in IssuePool}
         ELSE {}
    [] call.fn = "MergeRequests.edit" ->
         IF TheMR(a[1], a[2]) /\ EditFields(a[3]) # {}
         THEN LET st2 == ApplyEdit(st, a[3]) IN {Ok(MergeRequestObject(st2), st2)}
         ELSE {}

\* Any call may fail; without a token every call fails.
ProviderReplies(call, st) ==
  {Failed(e) : e \in ProviderErrors} \cup
  (IF Truthy(env.token) THEN ProviderSuccesses(call, st) ELSE {})

(***************************************************************************)
(* The requests the transport delivers                                     *)
(***************************************************************************)
\* The required array of each tool's inputSchema.
Required(name) ==
  CASE name = "get_projects" -> <<>>
    [] name = "list_open_merge_requests" -> <<"project_id">>
    [] name = "get_merge_request_details" -> <<"project_id", "merge_request_iid">>
    [] name = "get_merge_request_comments" -> <<"project_id", "merge_request_iid">>
    [] name = "add_merge_request_comment" ->
         <<"project_id", "merge_request_iid", "comment">>
    [] name = "add_merge_request_diff_comment" ->
         <<"project_id", "merge_request_iid", "comment", "base_sha", "start_sha",
           "head_sha", "file_path", "line_number">>
    [] name = "get_merge_request_diff" -> <<"project_id", "merge_request_iid">>
    [] name = "get_issue_details" -> <<"project_id", "issue_iid">>
    [] name = "set_merge_request_description" ->
         <<"project_id", "merge_request_iid", "description">>
    [] name = "set_merge_request_title" -> <<"project_id", "merge_request_iid", "title">>
    [] OTHER -> <<>>

\* The tools whose inputSchema has the verbose property.
AcceptsVerbose ==
  {"get_projects", "list_open_merge_requests", "get_merge_request_details",
   "get_merge_request_comments", "get_issue_details"}

\* The registry: one descriptor per tool, in the order of `tools` (the order of
\* the registerTool calls in the "ts" variant).
tools ==
  [i \in DOMAIN ToolNames |->
     [name |-> ToolNames[i],
      required |-> Required(ToolNames[i]),
      verbose |-> ToolNames[i] \in AcceptsVerbose]]

\* The values a request gives an argument: the first is the one the model's
\* provider knows; 0 and "" are the values `!x` takes for missing.
ArgValues(k) ==
  CASE k \in {"project_id", "merge_request_iid", "issue_iid"} -> <<Num(1), Num(0)>>
    [] k = "comment" -> <<Str("LGTM"), Str("")>>
    [] k = "base_sha" -> <<Str("a1"), Str("")>>
    [] k = "start_sha" -> <<Str("b2"), Str("")>>
    [] k = "head_sha" -> <<Str("c3"), Str("")>>
    [] k = "file_path" -> <<Str("src/main.ts"), Str("")>>
    [] k = "line_number" -> <<Str("42"), Str("")>>
    [] k = "description" -> <<Str("D1"), Str("")>>
    [] k = "title" -> <<Str("T1"), Str(""), Str("T2")>>

\* The argument objects of a tool: every required argument supplied with its
\* first value, but for at most one that is left out or has another value;
\* verbose left out, false or true where the tool accepts it.
ArgObjects(name) ==
  LET req == Required(name)
      full == [k \in Range(req) |-> ArgValues(k)[1]]
      bases == {full} \cup
               {[k \in Range(req) \ {d} |-> full[k]] : d \in Range(req)} \cup
               UNION {{[full EXCEPT ![d] = ArgValues(d)[j]] :
                         j \in 2..Len(ArgValues(d))} : d \in Range(req)}
      flags == IF name \in AcceptsVerbose THEN {Undef, Bool(FALSE), Bool(TRUE)}
               ELSE {Undef}
  IN {Obj(SelectSeq(req, LAMBDA k : k \in DOMAIN b) \o
          (IF f = Undef THEN <<>> ELSE <<"verbose">>),
          [k \in DOMAIN b \cup (IF f = Undef THEN {} ELSE {"verbose"}) |->
             IF k = "verbose" THEN f ELSE b[k]]) : b \in bases, f \in flags}

\* Argument objects of get_projects that carry keys of the provider's filter.
CallerFilterArgs ==
  { Rec(<<"search">>, <<Str("secret")>>),
    Rec(<<"membership", "minAccessLevel", "search", "verbose">>,
        <<Bool(FALSE), Num(10), Str("secret"), Bool(TRUE)>>) }

\* A request: a name and its arguments (undefined when the request has none).
\* The "ts" server looks the name up before it calls a callback, so its
\* callbacks see registered names only.
Requests ==
  {[name |-> n, args |-> a] : n \in Range(ToolNames), a \in {Undef}} \cup
  UNION {{[name |-> n, args |-> a] : a \in ArgObjects(n)} : n \in Range(ToolNames)} \cup
  {[name |-> "get_projects", args |-> a] : a \in CallerFilterArgs} \cup
  (IF variant = "js"
   THEN {[name |-> n, args |-> a] :
           n \in {"not_a_tool", "getProjects"}, a \in {Undef, Obj(<<>>, <<>>)}}
   ELSE {})

(***************************************************************************)
(* The server                                                              *)
(***************************************************************************)
None == [t |-> "none"]
Idle == [pc |-> "idle"]

\* The invocations in flight: the transport dispatches a request while another
\* is suspended at its await.
Slots == {"s1", "s2"}

InitialStore == [title |-> Str("T0"), description |-> Null]

\* process.env: each variable unset or set; a filter variable may be set to
\* the empty string.
EnvConfigs ==
  {[token |-> tk, minAccessLevel |-> lv, projectSearchTerm |-> st] :
     tk \in {Undef, Str("glpat-1")},
     lv \in {Undef, Str(""), Str("30")},
     st \in {Undef, Str(""), Str("core")}}

Init ==
  /\ variant \in {"js", "ts"}
  /\ env \in EnvConfigs
  /\ proc = "loading"
  /\ store = InitialStore
  /\ inv = [s \in Slots |-> Idle]
  /\ lastTitle = None
  /\ listed = None

\* How the process is launched: main, the file is the main module of the process
\* under its own path (and not imported, or started through a link); connects,
\* creating the server and connecting it to the transport succeeds.
Launches == [main : BOOLEAN, connects : BOOLEAN]

\* Module load and start-up; proc is "serving" once the server is connected,
\* "exited" after process.exit(1), "ended" when the module has loaded and the
\* process has nothing to wait for.
\* "js": a missing token is logged and the start goes on all the same; the
\* start runs however the module is loaded; a start that fails ends the process.
StartJS(launch) ==
  /\ variant = "js"
  /\ proc = "loading"
  /\ proc' = IF launch.connects THEN "serving" ELSE "exited"
  /\ UNCHANGED <<listed, variant, env, store, inv, lastTitle>>

\* "ts": a missing token ends the process at module load; main() is called for
\* the main module only; a start that fails ends the process.
StartTS(launch) ==
  /\ variant = "ts"
  /\ proc = "loading"
  /\ proc' = IF ~Truthy(env.token) THEN "exited"
             ELSE IF ~launch.main THEN "ended"
             ELSE IF launch.connects THEN "serving"
             ELSE "exited"
  /\ UNCHANGED <<listed, variant, env, store, inv, lastTitle>>

\* The invocation after the handler has run up to its await, thrown or returned.
\* A handler that throws rejects its promise: the dispatcher, suspended at
\* `await handler(args)`, reaches its catch block in a later step ("rejected").
\* The throw of the switch's default is caught in the same step.
Invocation(req, ran) ==
  LET rejected == ran.handler # "none" /\ ran.out.k = "throw"
      out == IF rejected THEN ran.out ELSE Catch(ran.out)
  IN [pc |-> IF out.k = "await" THEN "awaiting"
             ELSE IF rejected THEN "rejected" ELSE "done",
      name |-> req.name,
      args |-> req.args,
      handler |-> ran.handler,
      calls |-> IF ran.out.k = "await" THEN <<ran.out.call>> ELSE <<>>,
      raised |-> ran.out.k = "throw",
      error |-> IF ran.out.k = "throw" THEN ran.out.error ELSE None,
      reply |-> None,
      seen |-> None,
      result |-> None,
      outcome |-> IF out.k = "await" \/ rejected THEN None ELSE out]

\* A tools/call request arrives: the dispatcher runs the handler to its await
\* or to its throw.
CallTool(s, req) ==
  /\ proc = "serving"
  /\ inv[s] = Idle
  /\ inv' = [inv EXCEPT ![s] =
               Invocation(req, IF variant = "js" THEN SwitchJS(req.name, req.args)
                               ELSE RegisteredToolTS(req.name, req.args))]
  /\ UNCHANGED <<listed, variant, env, proc, store, lastTitle>>

\* The dispatcher resumes with the rejection of the handler's promise: its catch
\* block turns the invocation's own error into the failure result.
DispatcherCatches(s) ==
  /\ inv[s].pc = "rejected"
  /\ inv' = [inv EXCEPT ![s].pc = "done",
                        ![s].outcome = Catch(Throw(inv[s].error))]
  /\ UNCHANGED <<listed, variant, env, proc, store, lastTitle>>

\* The dispatcher resumes with the value of the handler's promise and returns it.
DispatcherReturns(s) ==
  /\ inv[s].pc = "fulfilled"
  /\ inv' = [inv EXCEPT ![s].pc = "done",
                        ![s].outcome = Return(inv[s].result)]
  /\ UNCHANGED <<listed, variant, env, proc, store, lastTitle>>

\* A handler that issues its call a second time when the first one fails.
ResumedRetriesOnce(i, reply) ==
  IF ~reply.ok /\ Len(i.calls) = 1
  THEN [i EXCEPT !.calls = Append(@, @[1])]
  ELSE LET inner == IF ~reply.ok THEN Throw(reply.error)
                    ELSE IF variant = "js"
                    THEN SwitchJSResume(i.name, i.args, reply.value)
                    ELSE RegisteredToolTSResume(i.name, i.args, reply.value)
       IN [i EXCEPT !.pc = IF inner.k = "throw" THEN "rejected" ELSE "fulfilled",
                    !.raised = inner.k = "throw",
                    !.error = IF inner.k = "throw" THEN inner.error ELSE None,
                    !.reply = IF reply.ok THEN reply.value ELSE None,
                    !.result = IF inner.k = "throw" THEN None ELSE inner.result]

\* A handler that keeps its arguments in one place shared by all invocations:
\* after the await it reads the arguments of the invocation that arrived last.
ResumedSharesArguments(i, reply) ==
  LET latest == IF inv["s2"].pc # "idle" /\ inv["s2"].name = i.name
                THEN inv["s2"].args ELSE i.args
      inner == IF ~reply.ok THEN Throw(reply.error)
               ELSE IF variant = "js" THEN SwitchJSResume(i.name, latest, reply.value)
               ELSE RegisteredToolTSResume(i.name, latest, reply.value)
  IN [i EXCEPT !.pc = IF inner.k = "throw" THEN "rejected" ELSE "fulfilled",
               !.raised = inner.k = "throw",
               !.error = IF inner.k = "throw" THEN inner.error ELSE None,
               !.reply = IF reply.ok THEN reply.value ELSE None,
               !.seen = IF reply.ok THEN lastTitle ELSE None,
               !.result = IF inner.k = "throw" THEN None ELSE inner.result]

\* The invocation after its provider call has settled with reply: the handler
\* has run from its await to its return or throw, and its promise is fulfilled
\* or rejected; the dispatcher has not resumed yet.
Resumed(i, reply) ==
  LET inner == IF ~reply.ok THEN Throw(reply.error)
               ELSE IF variant = "js" THEN SwitchJSResume(i.name, i.args, reply.value)
               ELSE RegisteredToolTSResume(i.name, i.args, reply.value)
  IN [i EXCEPT !.pc = IF inner.k = "throw" THEN "rejected" ELSE "fulfilled",
               !.raised = inner.k = "throw",
               !.error = IF inner.k = "throw" THEN inner.error ELSE None,
               !.reply = IF reply.ok THEN reply.value ELSE None,
               !.seen = IF reply.ok THEN lastTitle ELSE None,
               !.result = IF inner.k = "throw" THEN None ELSE inner.result]

\* The provider answers the call of invocation s and the handler runs to its end.
\* The dispatcher, suspended at `await handler(args)`, resumes in a later step.
ProviderReply(s) ==
  /\ inv[s].pc = "awaiting"
  /\ \E reply \in ProviderReplies(inv[s].calls[1], store) :
       /\ inv' = [inv EXCEPT ![s] = Resumed(inv[s], reply)]
       /\ store' = IF reply.ok THEN reply.store ELSE store
       /\ lastTitle' =
            IF reply.ok /\ inv[s].calls[1].fn = "MergeRequests.edit"
            THEN (IF inv[s].name = "set_merge_request_title"
                  THEN GetProp(inv[s].args, "title") ELSE None)
            ELSE lastTitle
  /\ UNCHANGED <<listed, variant, env, proc>>

\* A tools/list request arrives and is answered with the registry; `listed` is
\* the answer until the transport has sent it.
ListTools ==
  /\ proc = "serving"
  /\ listed = None
  /\ listed' = [tools |-> tools]
  /\ UNCHANGED <<variant, env, proc, store, inv, lastTitle>>

\* The transport sends the answer of the discovery request to the caller.
RespondList ==
  /\ listed # None
  /\ listed' = None
  /\ UNCHANGED <<variant, env, proc, store, inv, lastTitle>>

\* The transport sends the result of invocation s to the caller.
Respond(s) ==
  /\ inv[s].pc = "done"
  /\ inv' = [inv EXCEPT ![s] = Idle]
  /\ UNCHANGED <<listed, variant, env, proc, store, lastTitle>>

\* One step of the process while the transport delivers the requests reqs: the
\* start-up, a request dispatched to a free slot, a step of an invocation in
\* flight, or a discovery request, at any moment.
Serve(reqs) ==
  \/ \E launch \in Launches : StartJS(launch)
  \/ \E launch \in Launches : StartTS(launch)
  \/ \E s \in Slots : inv[s] = Idle /\ \E req \in reqs : CallTool(s, req)
  \/ \E s \in Slots : DispatcherCatches(s)
  \/ \E s \in Slots : DispatcherReturns(s)
  \/ \E s \in Slots : ProviderReply(s)
  \/ \E s \in Slots : Respond(s)
  \/ ListTools
  \/ RespondList

Next == Serve(Requests)

\* The program: every request, every configuration, two invocations in flight.
\* The specifications below are Spec with the configurations and the requests
\* restricted, so that each of their behaviours is a behaviour of Spec.
Spec == Init /\ [][Next]_vars

\* The argument object that gives every required argument of a tool its first value.
FullArgs(name) ==
  Rec(Required(name), [i \in DOMAIN Required(name) |-> ArgValues(Required(name)[i])[1]])

\* args with verbose: true added.
WithVerbose(args) ==
  Obj(args.keys \o <<"verbose">>,
      [k \in Range(args.keys) \cup {"verbose"} |->
         IF k = "verbose" THEN Bool(TRUE) ELSE args.val[k]])

\* args without argument d / with value v for argument d.
Without(args, d) ==
  Obj(SelectSeq(args.keys, LAMBDA k : k # d), [k \in Range(args.keys) \ {d} |-> args.val[k]])

With(args, d, v) == Obj(args.keys, [args.val EXCEPT ![d] = v])

\* The configurations with a token and no filter / with every filter variable
\* unset or non-empty, the search term only next to the access level.
TokenOnly ==
  {e \in EnvConfigs :
     Truthy(e.token) /\ e.minAccessLevel = Undef /\ e.projectSearchTerm = Undef}

NestedFilters ==
  {e \in EnvConfigs :
     /\ e.minAccessLevel # Str("") /\ e.projectSearchTerm # Str("")
     /\ e.projectSearchTerm # Undef => e.minAccessLevel # Undef}

\* The requests of the concurrent runs: reads of the projects and of the merge
\* request, one edit of each of its two fields, and a request without arguments
\* (its handler throws).
ConcurrentRequests ==
  LET mr == <<"project_id", "merge_request_iid">>
  IN { [name |-> "get_projects", args |-> Obj(<<>>, <<>>)],
       [name |-> "get_projects", args |-> Rec(<<"verbose">>, <<Bool(TRUE)>>)],
       [name |-> "get_merge_request_details", args |-> Rec(mr, <<Num(1), Num(1)>>)],
       [name |-> "get_merge_request_details", args |-> Undef],
       [name |-> "set_merge_request_title",
        args |-> Rec(mr \o <<"title">>, <<Num(1), Num(1), Str("T1")>>)],
       [name |-> "set_merge_request_description",
        args |-> Rec(mr \o <<"description">>, <<Num(1), Num(1), Str("D1")>>)] }

\* The transport dispatches a request while others are suspended at their await:
\* up to two invocations are in flight and their steps interleave.
NextConcurrent ==
  \/ \E launch \in Launches : StartJS(launch)
  \/ \E launch \in Launches : StartTS(launch)
  \/ \E s \in Slots : inv[s] = Idle /\ \E req \in ConcurrentRequests : CallTool(s, req)
  \/ \E s \in Slots : DispatcherCatches(s)
  \/ \E s \in Slots : DispatcherReturns(s)
  \/ \E s \in Slots : ProviderReply(s)
  \/ \E s \in Slots : Respond(s)
  \/ ListTools
  \/ RespondList

\* The start of a run whose filter variables are unset or non-empty.
InitNestedFilters == Init /\ env \in NestedFilters

SpecConcurrent == InitNestedFilters /\ [][NextConcurrent]_vars

\* Every tool with no arguments at all, every tool but the one with the most
\* provider answers with its full arguments, an argument left out, a supplied
\* 0 and a supplied empty string, and names no tool has.
ErrorRequests ==
  {[name |-> n, args |-> FullArgs(n)] :
     n \in Range(ToolNames) \ {"get_merge_request_comments"}} \cup
  {[name |-> n, args |-> Undef] : n \in Range(ToolNames)} \cup
  {[name |-> "list_open_merge_requests", args |-> Obj(<<>>, <<>>)],
   [name |-> "add_merge_request_diff_comment",
    args |-> Without(FullArgs("add_merge_request_diff_comment"), "line_number")],
   [name |-> "list_open_merge_requests",
    args |-> With(FullArgs("list_open_merge_requests"), "project_id", Num(0))],
   [name |-> "set_merge_request_description",
    args |-> With(FullArgs("set_merge_request_description"), "description", Str(""))]} \cup
  (IF variant = "js"
   THEN {[name |-> n, args |-> Obj(<<>>, <<>>)] : n \in {"not_a_tool", "getProjects"}}
   ELSE {})

\* The start of a run with the token set and no filter variable.
InitTokenOnly == Init /\ env \in TokenOnly

NextErrors ==
  \/ \E launch \in Launches : StartJS(launch)
  \/ \E launch \in Launches : StartTS(launch)
  \/ \E s \in Slots : inv[s] = Idle /\ \E req \in ErrorRequests : CallTool(s, req)
  \/ \E s \in Slots : DispatcherCatches(s)
  \/ \E s \in Slots : DispatcherReturns(s)
  \/ \E s \in Slots : ProviderReply(s)
  \/ \E s \in Slots : Respond(s)
  \/ ListTools
  \/ RespondList

SpecErrors == InitTokenOnly /\ [][NextErrors]_vars

\* The six reading tools in filtered and in verbose mode, and a request without
\* arguments.
ReadTools ==
  {"get_projects", "list_open_merge_requests", "get_merge_request_details",
   "get_merge_request_comments", "get_merge_request_diff", "get_issue_details"}

ReadRequests ==
  {[name |-> n, args |-> FullArgs(n)] : n \in ReadTools} \cup
  {[name |-> n, args |-> WithVerbose(FullArgs(n))] : n \in ReadTools \cap AcceptsVerbose} \cup
  {[name |-> "get_projects", args |-> Undef]}

NextReads == Serve(ReadRequests)

SpecReads == InitTokenOnly /\ [][NextReads]_vars

\* get_projects without arguments, with none, with verbose and with keys of the
\* provider's filter, under every configuration.
FilterRequests ==
  {[name |-> "get_projects", args |-> a] :
     a \in CallerFilterArgs \cup {Undef, Obj(<<>>, <<>>), Rec(<<"verbose">>, <<Bool(TRUE)>>)}}

NextFilter == Serve(FilterRequests)

SpecFilter == Init /\ [][NextFilter]_vars

\* Edits of the title and of the description and reads of the details, in
\* flight together.
EditRequests ==
  LET t == FullArgs("set_merge_request_title")
      d == FullArgs("get_merge_request_details")
  IN {[name |-> "set_merge_request_title", args |-> a] :
        a \in {t, With(t, "title", Str("T2")), Without(t, "title"), Undef}} \cup
     {[name |-> "set_merge_request_description",
       args |-> FullArgs("set_merge_request_description")]} \cup
     {[name |-> "get_merge_request_details", args |-> a] : a \in {d, WithVerbose(d)}}

NextEdits == Serve(EditRequests)

SpecEdits == InitTokenOnly /\ [][NextEdits]_vars

\* Each of the ten tools with its full arguments, a request without arguments,
\* one without a required argument and one for a name no tool has: any two of
\* them in flight together.
AllToolRequests ==
  {[name |-> n, args |-> FullArgs(n)] : n \in Range(ToolNames)} \cup
  {[name |-> "get_issue_details", args |-> Undef],
   [name |-> "set_merge_request_title",
    args |-> Without(FullArgs("set_merge_request_title"), "title")]} \cup
  (IF variant = "js" THEN {[name |-> "not_a_tool", args |-> Obj(<<>>, <<>>)]} ELSE {})

\* The requests in flight next to each of the ten tools: a read in filtered and
\* in verbose mode, an edit, a comment and a request without arguments.
OverlapRequests ==
  {[name |-> n, args |-> FullArgs(n)] :
     n \in {"get_merge_request_details", "set_merge_request_title",
            "add_merge_request_comment"}} \cup
  {[name |-> "get_merge_request_details",
    args |-> WithVerbose(FullArgs("get_merge_request_details"))],
   [name |-> "get_issue_details", args |-> Undef]}

\* Slot s1 takes each of the ten tools, slot s2 the requests above.
NextOverlap ==
  \/ \E launch \in Launches : StartJS(launch)
  \/ \E launch \in Launches : StartTS(launch)
  \/ inv["s1"] = Idle /\ \E req \in AllToolRequests : CallTool("s1", req)
  \/ inv["s2"] = Idle /\ \E req \in OverlapRequests : CallTool("s2", req)
  \/ \E s \in Slots : DispatcherCatches(s)
  \/ \E s \in Slots : DispatcherReturns(s)
  \/ \E s \in Slots : ProviderReply(s)
  \/ \E s \in Slots : Respond(s)
  \/ ListTools
  \/ RespondList

\* The steps that take the invocation of slot s from its provider call to its
\* result: the provider's answer and the dispatcher's return or catch.
Completes(s) == ProviderReply(s) \/ DispatcherCatches(s) \/ DispatcherReturns(s)

SpecOverlap == InitTokenOnly /\ [][NextOverlap]_vars

\* The provider answers every call of slot s2 and the event loop runs its
\* continuation; nothing is assumed of the call of slot s1, which may never
\* return.
SpecStalled == SpecOverlap /\ WF_vars(Completes("s2"))

(***************************************************************************)
(* Reading an invocation and its result                                    *)
(***************************************************************************)
Active == {s \in Slots : inv[s].pc # "idle"}
Finished == {s \in Slots : inv[s].pc = "done"}
\* The finished invocations that returned a result.
Returned == {s \in Finished : inv[s].outcome.k = "return"}
\* The finished invocations whose provider call resolved.
Answered == {s \in Returned : inv[s].reply # None}

ResultOf(s) == inv[s].outcome.result
TextOf(s) == ResultOf(s).content[1].text
IsErrorResult(r) == "isError" \in DOMAIN r /\ r.isError = TRUE

\* The invocation has an argument object that does not hold argument k.
Omits(s, k) == inv[s].args.t = "object" /\ GetProp(inv[s].args, k) = Undef

\* The invocation asked for verbose = true.
AskedVerbose(s) == GetProp(inv[s].args, "verbose") = Bool(TRUE)

\* Another invocation is suspended at its provider call.
OtherSuspended(s) == \E u \in Slots \ {s} : inv[u].pc = "awaiting"

(***************************************************************************)
(* C1 (as claimed): an invocation of a registered tool that omits a        *)
(* required argument issues no provider call and ends in a failure result  *)
(* whose text names the omitted argument.                                  *)
(***************************************************************************)
C1_MissingArgumentFailsBeforeCall ==
  \A s \in Active :
    \A k \in Range(Required(inv[s].name)) :
      Omits(s, k) =>
        /\ inv[s].calls = <<>>
        /\ s \in Returned
        /\ IsErrorResult(ResultOf(s))
        /\ k \in Range(TextOf(s))

(***************************************************************************)
(* C2: a finished invocation has returned a result, never an exception;    *)
(* the result has exactly one content item, of type "text", and carries    *)
(* isError = true exactly when an error was raised during the invocation   *)
(* (a result without an error carries no isError field at all).            *)
(***************************************************************************)
C2_DispatcherAlwaysReturnsResult ==
  \A s \in Finished :
    /\ inv[s].outcome.k = "return"
    /\ Len(ResultOf(s).content) = 1
    /\ ResultOf(s).content[1].type = "text"
    /\ IsErrorResult(ResultOf(s)) <=> inv[s].raised
    /\ ~inv[s].raised => "isError" \notin DOMAIN ResultOf(s)

\* A provider call failed and the failure came back as a result, while another
\* invocation is suspended at its call.
C2_Witness ==
  \E s \in Finished :
    /\ inv[s].raised /\ inv[s].calls # <<>> /\ inv[s].error \in ProviderErrors
    /\ OtherSuspended(s)

(***************************************************************************)
(* C3: a request whose name is not one of the ten registered names ends in *)
(* a failure result whose text contains the requested name, and neither a  *)
(* handler nor a provider call was invoked for it. The dispatcher of the    *)
(* "js" variant is the one in the source; in the "ts" variant the name is   *)
(* looked up by the SDK server, which enters a callback for a registered    *)
(* name only.                                                               *)
(***************************************************************************)
C3_UnknownToolFails ==
  \A s \in Active :
    inv[s].name \notin Range(ToolNames) =>
      /\ s \in Returned
      /\ IsErrorResult(ResultOf(s))
      /\ inv[s].name \in Range(TextOf(s))
      /\ inv[s].handler = "none"
      /\ inv[s].calls = <<>>

\* The unknown name was refused while another invocation is suspended.
C3_Witness ==
  \E s \in Returned :
    inv[s].name = "not_a_tool" /\ IsErrorResult(ResultOf(s)) /\ OtherSuspended(s)

(***************************************************************************)
(* C4: for every raised error e the result is isError = true with the one  *)
(* text "Error: " + e.message + " - " + d, where d is e.cause.description  *)
(* when that is present and non-empty and "No additional details"          *)
(* otherwise, also when e has no cause.                                    *)
(***************************************************************************)
C4_Detail(e) ==
  IF /\ e.cause.t = "object"
     /\ "description" \in Range(e.cause.keys)
     /\ e.cause.val["description"] # Str("")
  THEN <<e.cause.val["description"].s>>
  ELSE <<"No additional details">>

C4_ErrorTranslatorText ==
  \A s \in Finished :
    inv[s].raised =>
      /\ inv[s].outcome.k = "return"
      /\ ResultOf(s).isError = TRUE
      /\ Len(ResultOf(s).content) = 1
      /\ TextOf(s) =
           <<"Error: ">> \o inv[s].error.message \o <<" - ">> \o C4_Detail(inv[s].error)

\* An error whose cause carries an empty description got the fallback text.
C4_Witness ==
  \E s \in Returned :
    /\ inv[s].raised
    /\ GetProp(inv[s].error.cause, "description") = Str("")
    /\ TextOf(s)[Len(TextOf(s))] = "No additional details"
    /\ OtherSuspended(s)

(***************************************************************************)
(* Reading the JSON text of a result                                       *)
(***************************************************************************)
\* How many brackets are open before token i.
Depth(text, i) ==
  Cardinality({j \in 1..(i - 1) : text[j] \in {"[", "{"}}) -
  Cardinality({j \in 1..(i - 1) : text[j] \in {"]", "}"}})

\* The text is a JSON array.
IsArrayText(text) == Len(text) >= 2 /\ text[1] = "[" /\ text[Len(text)] = "]"

\* The number of objects a JSON array text holds.
ArrayLength(text) ==
  Cardinality({i \in DOMAIN text : text[i] = "{" /\ Depth(text, i) = 1})

\* The places of the text where key k of an object at depth d is given.
KeyPlaces(text, k, d) ==
  {i \in 1..(Len(text) - 2) :
     text[i] = Quote(k) /\ text[i + 1] = ":" /\ Depth(text, i) = d}

RECURSIVE Ascending(_)
\* The numbers of a finite set in ascending order.
Ascending(S) ==
  IF S = {} THEN <<>>
  ELSE LET m == CHOOSE x \in S : \A y \in S : x <= y
       IN <<m>> \o Ascending(S \ {m})

\* The id tokens of the entries of the list under key k of a comments result.
EntryIds(text, k) ==
  LET start == CHOOSE i \in KeyPlaces(text, k, 1) : TRUE
      close == CHOOSE j \in (start + 2)..Len(text) :
                 /\ text[j] = "]" /\ Depth(text, j) = 2
                 /\ \A h \in (start + 2)..(j - 1) : ~(text[h] = "]" /\ Depth(text, h) = 2)
      places == {i \in KeyPlaces(text, "id", 3) : start < i /\ i < close}
      order == Ascending(places)
  IN [n \in DOMAIN order |-> text[order[n] + 2]]

\* The id token of a raw note.
IdToken(note) == JSONstringify(GetProp(note, "id"))[1]

(***************************************************************************)
(* C5 (as claimed): non-verbose get_merge_request_comments on a discussion *)
(* set with N unresolved DiscussionNotes, M unresolved DiffNotes and K     *)
(* resolved notes returns a result whose discussion-note list has N        *)
(* entries and whose diff-note list has M entries, none of them one of the *)
(* K resolved notes.                                                       *)
(***************************************************************************)
C5_Notes(s, resolved, kind) ==
  SelectSeq(FlatNotes(inv[s].reply.items),
            LAMBDA n : GetProp(n, "resolved") = Bool(resolved) /\
                       GetProp(n, "type") = Str(kind))

C5_Case(s) ==
  /\ s \in Finished
  /\ inv[s].name = "get_merge_request_comments"
  /\ inv[s].reply # None
  /\ ~AskedVerbose(s)

C5_Partitioned(s) ==
  LET text == TextOf(s)
      resolvedIds == {IdToken(n) : n \in Range(C5_Notes(s, TRUE, "DiscussionNote")) \cup
                                         Range(C5_Notes(s, TRUE, "DiffNote"))}
  IN /\ ~IsErrorResult(ResultOf(s))
     /\ Len(EntryIds(text, "disscussionNotes")) = Len(C5_Notes(s, FALSE, "DiscussionNote"))
     /\ Len(EntryIds(text, "diffNotes")) = Len(C5_Notes(s, FALSE, "DiffNote"))
     /\ resolvedIds \cap (Range(EntryIds(text, "disscussionNotes")) \cup
                          Range(EntryIds(text, "diffNotes"))) = {}

C5_CommentPartitionCounts == \A s \in Slots : C5_Case(s) => C5_Partitioned(s)

(***************************************************************************)
(* C6 (as claimed): each of the four list operations, called without       *)
(* verbose = true, returns a list as long as the raw provider list whose   *)
(* every element holds exactly the fields of the operation's projection.   *)
(***************************************************************************)
C6_ListOperations ==
  {"get_projects", "list_open_merge_requests", "get_merge_request_comments",
   "get_merge_request_diff"}

\* The projection of an operation, as the specification lists it; the diff
\* operation has none and the comments operation projects notes, not discussions.
C6_Projection(name) ==
  CASE name = "get_projects" ->
         <<"id", "description", "name", "path", "path_with_namespace", "web_url",
           "default_branch">>
    [] name = "list_open_merge_requests" ->
         <<"iid", "project_id", "title", "description", "state", "web_url">>
    [] name = "get_merge_request_comments" ->
         <<"id", "noteable_id", "body", "author_name">>
    [] OTHER -> <<>>

C6_Case(s) ==
  /\ s \in Answered
  /\ inv[s].name \in C6_ListOperations
  /\ ~AskedVerbose(s)

\* The keys of the n-th object of a JSON array text.
C6_ElementKeys(text, n) ==
  LET starts == Ascending({i \in DOMAIN text : text[i] = "{" /\ Depth(text, i) = 1})
      from == starts[n]
      upto == IF n < Len(starts) THEN starts[n + 1] ELSE Len(text)
  IN {text[j] : j \in {h \in from..(upto - 1) :
                         text[h + 1] = ":" /\ Depth(text, h) = 2}}

C6_ElementText(o, ks) ==
  LET present == SelectSeq(ks, LAMBDA k : k \in Range(o.keys))
  IN <<"{">> \o
     JoinComma([i \in DOMAIN present |->
                  <<Quote(present[i]), ":">> \o JSONstringify(o.val[present[i]])]) \o
     <<"}">>

C6_ListText(s) ==
  LET raw == inv[s].reply.items
  IN <<"[">> \o
     JoinComma([i \in DOMAIN raw |->
                  C6_ElementText(raw[i],
                                 IF inv[s].name = "get_merge_request_diff"
                                 THEN raw[i].keys
                                 ELSE C6_Projection(inv[s].name))]) \o
     <<"]">>

\* The text is one object with the two note lists and no other key.
C6_TwoNoteLists(text) ==
  /\ ~IsArrayText(text)
  /\ text[1] = "{"
  /\ {text[i] : i \in {h \in 1..(Len(text) - 1) : text[h + 1] = ":" /\ Depth(text, h) = 1}}
       = {Quote("disscussionNotes"), Quote("diffNotes")}
  /\ \A k \in {"disscussionNotes", "diffNotes"} :
       /\ Cardinality(KeyPlaces(text, k, 1)) = 1
       /\ \A i \in KeyPlaces(text, k, 1) : text[i + 2] = "["

C7_Case(s) ==
  /\ s \in Answered
  /\ inv[s].name \in AcceptsVerbose
  /\ AskedVerbose(s)

C7_VerboseReturnsRawAlways ==
  \A s \in Slots : C7_Case(s) => TextOf(s) = JSONstringify(inv[s].reply)

(***************************************************************************)
(* C7 (amended): with verbose = true the text is the serialization of the  *)
(* provider result r itself, except for get_projects on an empty project   *)
(* list, whose text is "No projects found.".                               *)
(***************************************************************************)
C7_EmptyProjects(s) ==
  inv[s].name = "get_projects" /\ inv[s].reply = Arr(<<>>)

C7_VerboseReturnsRaw ==
  \A s \in Slots :
    C7_Case(s) =>
      TextOf(s) = IF C7_EmptyProjects(s) THEN <<"No projects found.">>
                  ELSE JSONstringify(inv[s].reply)

\* Verbose comments came back with a resolved note, which filtered mode drops.
C7_Witness ==
  \E s \in Slots :
    /\ C7_Case(s)
    /\ inv[s].name = "get_merge_request_comments"
    /\ \E n \in Range(FlatNotes(inv[s].reply.items)) : GetProp(n, "resolved") = Bool(TRUE)
    /\ Quote("resolved") \in Range(TextOf(s))
    /\ OtherSuspended(s)

(***************************************************************************)
(* C8: get_projects on an empty provider list returns the text             *)
(* "No projects found." and get_merge_request_diff on an empty provider    *)
(* list returns "No diff data available for this merge request."; neither  *)
(* returns "[]", and on a non-empty list both return the serialized list   *)
(* (of as many elements as the provider list).                             *)
(***************************************************************************)
C8_Case(s) ==
  /\ s \in Answered
  /\ inv[s].name \in {"get_projects", "get_merge_request_diff"}

C8_EmptyText(name) ==
  IF name = "get_projects" THEN <<"No projects found.">>
  ELSE <<"No diff data available for this merge request.">>

C8_EmptyCollectionText ==
  \A s \in Slots :
    C8_Case(s) =>
      /\ TextOf(s) # <<"[", "]">>
      /\ Len(inv[s].reply.items) = 0 => TextOf(s) = C8_EmptyText(inv[s].name)
      /\ Len(inv[s].reply.items) > 0 =>
           /\ IsArrayText(TextOf(s))
           /\ ArrayLength(TextOf(s)) = Len(inv[s].reply.items)
           /\ (AskedVerbose(s) \/ inv[s].name = "get_merge_request_diff") =>
                TextOf(s) = JSONstringify(inv[s].reply)

\* Both literal texts are produced by invocations in flight together: an empty
\* project list in filtered mode and an empty diff list.
C8_Witness ==
  \E s \in Slots :
    /\ C8_Case(s)
    /\ inv[s].name = "get_projects"
    /\ ~AskedVerbose(s)
    /\ inv[s].reply = Arr(<<>>)
    /\ TextOf(s) = <<"No projects found.">>
    /\ \E u \in Slots \ {s} :
         /\ C8_Case(u)
         /\ inv[u].name = "get_merge_request_diff"
         /\ inv[u].reply = Arr(<<>>)

(***************************************************************************)
(* C9: when get_merge_request_details answers after a successful           *)
(* set_merge_request_title(project, iid, t) with no edit of that merge     *)
(* request in between, the details it returns have one title field, and    *)
(* its value is t, in filtered and in verbose mode.                        *)
(***************************************************************************)
C9_Case(s) ==
  /\ s \in Answered
  /\ inv[s].name = "get_merge_request_details"
  /\ inv[s].seen # None

C9_TitleRoundTrip ==
  \A s \in Slots :
    C9_Case(s) =>
      /\ Cardinality(KeyPlaces(TextOf(s), "title", 1)) = 1
      /\ \A i \in KeyPlaces(TextOf(s), "title", 1) :
           TextOf(s)[i + 2] = Quote(inv[s].seen.s)

\* Details in filtered mode show the title T2 that was set after T0, while the
\* next edit of the title is in flight and not yet applied.
C9_Witness ==
  \E s \in Slots :
    /\ C9_Case(s)
    /\ ~AskedVerbose(s)
    /\ inv[s].seen = Str("T2")
    /\ Quote("T2") \in Range(TextOf(s))
    /\ \E u \in Slots \ {s} :
         /\ inv[u].pc = "awaiting"
         /\ inv[u].name = "set_merge_request_title"
         /\ GetProp(inv[u].args, "title") = Str("T1")

(***************************************************************************)
(* C10 (as claimed): add_merge_request_diff_comment given all eight        *)
(* arguments issues one create-discussion call whose position carries the  *)
(* base, start and head SHAs unchanged, the file path as old and new path, *)
(* position type "text" and the line number as new line; when one of the   *)
(* eight is missing no call is issued.                                     *)
(***************************************************************************)
\* A member of the position under its snake_case or its camelCase name.
C10_Member(position, snake, camel) ==
  IF snake \in Range(position.keys) THEN position.val[snake]
  ELSE GetProp(position, camel)

C10_PositionCarries(call, args) ==
  LET position == GetProp(call.params[4], "position")
  IN /\ call.fn = "MergeRequestDiscussions.create"
     /\ Len(call.params) = 4
     /\ C10_Member(position, "base_sha", "baseSha") = GetProp(args, "base_sha")
     /\ C10_Member(position, "start_sha", "startSha") = GetProp(args, "start_sha")
     /\ C10_Member(position, "head_sha", "headSha") = GetProp(args, "head_sha")
     /\ C10_Member(position, "old_path", "oldPath") = GetProp(args, "file_path")
     /\ C10_Member(position, "new_path", "newPath") = GetProp(args, "file_path")
     /\ C10_Member(position, "position_type", "positionType") = Str("text")
     /\ C10_Member(position, "new_line", "newLine") = GetProp(args, "line_number")

C10_DiffCommentPosition ==
  \A s \in Active :
    (inv[s].name = "add_merge_request_diff_comment" /\ inv[s].args.t = "object") =>
      IF \A k \in Range(Required(inv[s].name)) : ~Omits(s, k)
      THEN /\ Len(inv[s].calls) = 1
           /\ C10_PositionCarries(inv[s].calls[1], inv[s].args)
      ELSE inv[s].calls = <<>>

(***************************************************************************)
(* C11: an invocation that passes validation issues exactly one provider   *)
(* call, and it issues it when the request is taken: no later step of an   *)
(* invocation issues a call. The step in which the provider fails a call   *)
(* leaves the provider's store as it was; the next step of the invocation  *)
(* is the dispatcher's catch, which finishes it with one failure result of *)
(* one text item that reports the provider's error; and a finished         *)
(* invocation stays as it is until its result is sent, once.               *)
(***************************************************************************)
\* The invocation has an argument object that its handler accepts: any object
\* in the "js" variant, one with every required argument truthy in the "ts" one.
C11_PassesValidation(s) ==
  /\ inv[s].name \in Range(ToolNames)
  /\ inv[s].args.t = "object"
  /\ variant = "ts" =>
       \A k \in Range(Required(inv[s].name)) : Truthy(GetProp(inv[s].args, k))

\* The provider call of the invocation failed.
C11_CallFailed(s) ==
  inv[s].pc = "done" /\ inv[s].calls # <<>> /\ inv[s].reply = None

C11_OneCall ==
  \A s \in Active :
    /\ Len(inv[s].calls) <= 1
    /\ C11_PassesValidation(s) => Len(inv[s].calls) = 1
    /\ C11_CallFailed(s) =>
         /\ inv[s].outcome.k = "return"
         /\ IsErrorResult(ResultOf(s))
         /\ Len(ResultOf(s).content) = 1
         /\ inv[s].error \in ProviderErrors
         /\ TextOf(s)[2] = inv[s].error.message[1]

\* What a step may do to the invocation of slot s.
C11_NoFurtherCall ==
  \A s \in Slots :
    \* a call is issued only by the step that takes the request
    /\ (inv'[s].pc = "awaiting" /\ inv'[s] # inv[s])
         => (inv[s].pc = "idle" /\ Len(inv'[s].calls) = 1)
    /\ (inv[s].pc \in {"awaiting", "rejected", "fulfilled"} /\ inv'[s].pc # "idle")
         => inv'[s].calls = inv[s].calls
    \* the failed call changed nothing at the provider
    /\ (inv[s].pc = "awaiting" /\ inv'[s].pc = "rejected" /\ inv'[s].reply = None)
         => (store' = store /\ inv'[s].error \in ProviderErrors)
    \* after the failure comes the catch and nothing else
    /\ (inv[s].pc = "rejected" /\ inv'[s] # inv[s])
         => /\ inv'[s].pc = "done"
            /\ inv'[s].error = inv[s].error
            /\ inv'[s].outcome.k = "return"
            /\ IsErrorResult(inv'[s].outcome.result)
    /\ inv[s].pc = "done" => (inv'[s] = inv[s] \/ inv'[s] = Idle)

C11_ExactlyOneCallFailureTerminal == []C11_OneCall /\ [][C11_NoFurtherCall]_vars

\* A validated invocation whose one call failed, finished with the failure
\* result, while the call of another invocation is still out.
C11_Witness ==
  \E s \in Finished :
    /\ C11_PassesValidation(s)
    /\ C11_CallFailed(s)
    /\ Len(inv[s].calls) = 1
    /\ IsErrorResult(ResultOf(s))
    /\ inv[s].name = "get_merge_request_comments"
    /\ OtherSuspended(s)

(***************************************************************************)
(* C12: with two invocations in flight and their steps interleaved, a step *)
(* changes the record of one invocation at most, and the provider's store  *)
(* only when it answers an edit; two finished invocations of the same      *)
(* request that got the same answer from the provider hold the same        *)
(* result, whatever was in flight next to each of them and in whatever     *)
(* order the steps came (one of the two may have run with nothing next to  *)
(* it); and while the provider call of slot s1 is out, be it for ever,     *)
(* every invocation of slot s2 comes to its result.                        *)
(***************************************************************************)
\* The same request with the same answer of the provider.
C12_SameRun(s, u) ==
  /\ inv[s].name = inv[u].name
  /\ inv[s].args = inv[u].args
  /\ inv[s].reply = inv[u].reply
  /\ (inv[s].calls # <<>> /\ inv[s].reply = None) => inv[s].error = inv[u].error

C12_SameResult ==
  \A s \in Finished : \A u \in Finished :
    C12_SameRun(s, u) =>
      /\ inv[s].outcome = inv[u].outcome
      /\ inv[s].calls = inv[u].calls

\* A step writes the record of one invocation at most, and the store only
\* when the provider answers the call of an edit.
C12_OwnRecordOnly ==
  /\ \A s \in Slots : \A u \in Slots \ {s} :
       inv'[s] # inv[s] => inv'[u] = inv[u]
  /\ store' # store =>
       \E s \in Slots :
         /\ inv[s].pc = "awaiting"
         /\ inv[s].calls[1].fn = "MergeRequests.edit"
         /\ inv'[s].pc \in {"fulfilled", "rejected"}
         /\ inv'[s].reply # None

\* Under the fairness of SpecStalled, which holds for slot s2 only.
C12_StalledDoesNotBlock ==
  (inv["s2"].pc \in {"awaiting", "rejected", "fulfilled"}) ~> (inv["s2"].pc = "done")

C13_Names ==
  <<"get_projects", "list_open_merge_requests", "get_merge_request_details",
    "get_merge_request_comments", "add_merge_request_comment",
    "add_merge_request_diff_comment", "get_merge_request_diff", "get_issue_details",
    "set_merge_request_description", "set_merge_request_title">>

\* The names the switch of the "js" dispatcher has a case for, among the names
\* of the registry and the names no tool has.
C13_AcceptedJS ==
  {n \in Range(C13_Names) \cup {"not_a_tool", "getProjects"} :
     SwitchJS(n, Obj(<<>>, <<>>)).handler # "none"}

\* The names of a list of descriptors, in its order.
C13_NamesOf(list) == [i \in DOMAIN list |-> list[i].name]

C13_RegistryFixed ==
  /\ C13_NamesOf(tools) = C13_Names
  /\ Cardinality(Range(C13_NamesOf(tools))) = 10
  /\ listed # None =>
       /\ C13_NamesOf(listed.tools) = C13_Names
       /\ \A i \in DOMAIN listed.tools :
            listed.tools[i].required = Required(C13_Names[i])
  /\ C13_AcceptedJS = Range(C13_Names)
  /\ \A s \in Active : inv[s].handler # "none" <=> inv[s].name \in Range(C13_Names)

\* A discovery request is answered while a provider call is in flight, after
\* an invocation that edited the merge request and next to one that failed.
C13_Witness ==
  /\ listed # None
  /\ Len(listed.tools) = 10
  /\ store.title = Str("T1")
  /\ \E s \in Slots : inv[s].pc = "awaiting"
  /\ \E s \in Finished : inv[s].raised

(***************************************************************************)
(* C14 (as claimed): when the access token is absent at start-up the       *)
(* process refuses to start: the server never serves, and no tool          *)
(* invocation is taken in that run.                                        *)
(***************************************************************************)
C14_NoTokenNoServer ==
  ~Truthy(env.token) =>
    /\ proc # "serving"
    /\ \A s \in Slots : inv[s].pc = "idle"
    /\ listed = None

(***************************************************************************)
(* C15 (as claimed): in filtered mode, whatever projected field the raw    *)
(* provider object lacks (a note without author included), the invocation  *)
(* returns a success result, in which that field is null or absent; it     *)
(* never returns a failure result because of the missing field.            *)
(***************************************************************************)
\* The provider answered the invocation, which did not ask for verbose.
C15_Case(s) ==
  /\ s \in Finished
  /\ inv[s].reply # None
  /\ ~AskedVerbose(s)

\* The value the text gives key k where the raw object lacks it: none, or null.
C15_AbsentStaysAbsent(s) ==
  inv[s].name = "get_issue_details" /\ "description" \notin Range(inv[s].reply.keys)
    => \A i \in KeyPlaces(TextOf(s), "description", 1) : TextOf(s)[i + 2] = "null"

C15_AbsentFieldIsNotAnError ==
  \A s \in Slots :
    C15_Case(s) =>
      /\ ~inv[s].raised
      /\ ~IsErrorResult(ResultOf(s))
      /\ C15_AbsentStaysAbsent(s)

(***************************************************************************)
(* C16 (as claimed): every get_projects invocation with an argument object *)
(* sends the provider one filter: membership = true always, the minimum    *)
(* access level exactly when the configuration variable is set, the search *)
(* term exactly when the configuration variable is set, and nothing else;  *)
(* the filter is the same whatever keys the caller's arguments hold.       *)
(***************************************************************************)
\* The filter of the invocation is made of the keys ks, with the values of the
\* configuration.
C16_FilterIs(s, ks) ==
  /\ Len(inv[s].calls) = 1
  /\ inv[s].calls[1].fn = "Projects.all"
  /\ Len(inv[s].calls[1].params) = 1
  /\ LET filter == inv[s].calls[1].params[1]
     IN /\ Range(filter.keys) = ks
        /\ Len(filter.keys) = Cardinality(ks)
        /\ filter.val["membership"] = Bool(TRUE)
        /\ env.minAccessLevel = Str("30") => filter.val["minAccessLevel"] = Num(30)
        /\ "search" \in ks => filter.val["search"] = env.projectSearchTerm

C16_Case(s) == inv[s].name = "get_projects" /\ inv[s].args.t = "object"

C16_SetKeys ==
  {"membership"} \cup
  (IF env.minAccessLevel # Undef THEN {"minAccessLevel"} ELSE {}) \cup
  (IF env.projectSearchTerm # Undef THEN {"search"} ELSE {})

C16_FilterFromConfigurationOnly ==
  \A s \in Active : C16_Case(s) => C16_FilterIs(s, C16_SetKeys)

(***************************************************************************)
(* C16 (amended): the minimum access level and the search term are sent    *)
(* exactly when the configuration variable is set to a non-empty string (a *)
(* variable set to the empty string counts as not set); membership = true  *)
(* is always sent, nothing else is, and the filter is the same whatever    *)
(* keys the caller's arguments hold.                                       *)
(***************************************************************************)
C16_NonEmptyKeys ==
  {"membership"} \cup
  (IF env.minAccessLevel \notin {Undef, Str("")} THEN {"minAccessLevel"} ELSE {}) \cup
  (IF env.projectSearchTerm \notin {Undef, Str("")} THEN {"search"} ELSE {})

C16_FilterFromNonEmptyConfiguration ==
  \A s \in Active : C16_Case(s) => C16_FilterIs(s, C16_NonEmptyKeys)

\* The caller passed membership, minAccessLevel and search; the configuration
\* holds an access level and an empty search term, and the call went out with
\* the membership scope and the configured level, while another get_projects
\* call is out.
C16_Witness ==
  \E s \in Active :
    /\ inv[s].name = "get_projects"
    /\ GetProp(inv[s].args, "search") = Str("secret")
    /\ GetProp(inv[s].args, "membership") = Bool(FALSE)
    /\ env.minAccessLevel = Str("30")
    /\ env.projectSearchTerm = Str("")
    /\ inv[s].calls # <<>>
    /\ inv[s].calls[1].params[1].keys = <<"membership", "minAccessLevel">>
    /\ OtherSuspended(s)

(***************************************************************************)
(* C17: set_merge_request_title and set_merge_request_description each     *)
(* issue one edit call whose fields hold the one named field only; when    *)
(* the edit succeeds the stored merge request changes in that field alone  *)
(* (a title edit keeps the description, a description edit keeps the       *)
(* title), and the text returned is the provider's updated object in full. *)
(***************************************************************************)
C17_Field(name) == IF name = "set_merge_request_title" THEN "title" ELSE "description"

C17_IsEdit(s) ==
  inv[s].name \in {"set_merge_request_title", "set_merge_request_description"}

C17_OneFieldSent ==
  \A s \in Active :
    C17_IsEdit(s) =>
      /\ inv[s].calls # <<>> =>
           /\ Len(inv[s].calls) = 1
           /\ inv[s].calls[1].fn = "MergeRequests.edit"
           /\ inv[s].calls[1].params[3].keys = <<C17_Field(inv[s].name)>>
           /\ inv[s].calls[1].params[3].val[C17_Field(inv[s].name)] =
                GetProp(inv[s].args, C17_Field(inv[s].name))
      /\ s \in Answered =>
           /\ TextOf(s) = JSONstringify(inv[s].reply)
           /\ inv[s].reply.keys = MergeRequestObject(store).keys
           /\ GetProp(inv[s].reply, C17_Field(inv[s].name)) =
                GetProp(inv[s].args, C17_Field(inv[s].name))

\* The step in which the edit of invocation s succeeds changes its field only,
\* and the provider answers with the merge request as that step leaves it.
C17_OtherFieldsKept ==
  \A s \in Slots :
    (/\ inv[s].pc = "awaiting"
     /\ C17_IsEdit(s)
     /\ inv'[s].pc \in {"fulfilled", "rejected"}
     /\ inv'[s].reply # None)
    => /\ store'[C17_Field(inv[s].name)] = GetProp(inv[s].args, C17_Field(inv[s].name))
       /\ \A k \in DOMAIN store \ {C17_Field(inv[s].name)} : store'[k] = store[k]
       /\ inv'[s].reply = MergeRequestObject(store')
       /\ inv'[s].pc = "fulfilled"
       /\ inv'[s].result.content[1].text = JSONstringify(MergeRequestObject(store'))

C17_SingleFieldEdit == []C17_OneFieldSent /\ [][C17_OtherFieldsKept]_vars

\* A title edit succeeded on a merge request whose description had been set,
\* and the description is still there; the result of the title edit, not yet
\* sent, shows the title T2 while the next title edit has already been applied.
C17_Witness ==
  \E s \in Answered :
    /\ inv[s].name = "set_merge_request_title"
    /\ GetProp(inv[s].args, "title") = Str("T2")
    /\ GetProp(inv[s].reply, "description") = Str("D1")
    /\ store = [title |-> Str("T1"), description |-> Str("D1")]

(***************************************************************************)
(* C18 (as claimed): in the typed ("ts") handlers an invocation that       *)
(* supplies every required argument, be its value 0 or the empty string,   *)
(* passes validation and reaches the provider call; it is not reported as  *)
(* a missing argument.                                                     *)
(***************************************************************************)
\* Every required argument of the invocation is in its argument object.
C18_AllSupplied(s) ==
  /\ inv[s].name \in Range(ToolNames)
  /\ inv[s].args.t = "object"
  /\ \A k \in Range(Required(inv[s].name)) : ~Omits(s, k)

C18_SuppliedFalsyValuePasses ==
  \A s \in Active :
    (variant = "ts" /\ C18_AllSupplied(s)) =>
      /\ Len(inv[s].calls) = 1
      /\ ~(inv[s].pc = "done" /\ inv[s].raised /\ inv[s].reply = None
           /\ inv[s].error.message[Len(inv[s].error.message)] \in
                {" is required", " are required"})

(***************************************************************************)
(* C19 (as claimed): in non-verbose get_merge_request_comments the         *)
(* discussion-note list and the diff-note list are disjoint and together   *)
(* hold every unresolved note exactly once: each list holds, in the order  *)
(* of the flattened discussions, the unresolved notes of its kind, and no  *)
(* other entry.                                                            *)
(***************************************************************************)
\* The id tokens of the unresolved notes of a kind, in flattened order.
C19_Ids(s, kind) ==
  LET notes == C5_Notes(s, FALSE, kind) IN [i \in DOMAIN notes |-> IdToken(notes[i])]

\* The notes of the raw discussions with resolved = false, in flattened order.
C19_Unresolved(s) ==
  SelectSeq(FlatNotes(inv[s].reply.items),
            LAMBDA n : GetProp(n, "resolved") = Bool(FALSE))

C19_Partition(s) ==
  LET text == TextOf(s)
      discussionIds == EntryIds(text, "disscussionNotes")
      diffIds == EntryIds(text, "diffNotes")
  IN /\ discussionIds = C19_Ids(s, "DiscussionNote")
     /\ diffIds = C19_Ids(s, "DiffNote")
     /\ Range(discussionIds) \cap Range(diffIds) = {}
     /\ Len(discussionIds) + Len(diffIds) = Len(C19_Unresolved(s))
     /\ \A n \in Range(C19_Unresolved(s)) :
          IdToken(n) \in Range(discussionIds) \cup Range(diffIds)

C19_ListsDisjointAndCovering ==
  \A s \in Slots :
    C5_Case(s) => (~IsErrorResult(ResultOf(s)) /\ C19_Partition(s))

(***************************************************************************)
(* C20: set_merge_request_title(t) and set_merge_request_description(d)   *)
(* on the same merge request, in flight together, commute: whichever edit  *)
(* the provider applies first, once both have succeeded the merge request  *)
(* has title t and description d, and the step of either edit leaves the   *)
(* other's field as it was.                                                *)
(***************************************************************************)
C20_BothApplied ==
  \A s \in Answered : \A u \in Answered :
    (/\ inv[s].name = "set_merge_request_title"
     /\ inv[u].name = "set_merge_request_description")
    => /\ store.title = GetProp(inv[s].args, "title")
       /\ store.description = GetProp(inv[u].args, "description")

\* The step in which one edit succeeds keeps the field of the other edit.
C20_KeepsOtherField ==
  \A s \in Slots :
    (/\ inv[s].pc = "awaiting"
     /\ inv'[s].pc \in {"fulfilled", "rejected"}
     /\ inv'[s].reply # None) =>
      /\ inv[s].name = "set_merge_request_title" => store'.description = store.description
      /\ inv[s].name = "set_merge_request_description" => store'.title = store.title

C20_TitleAndDescriptionCommute == []C20_BothApplied /\ [][C20_KeepsOtherField]_vars

\* Both edits were in flight together and the description edit was applied
\* first: it saw the old title, the title edit saw the new description.
C20_Witness ==
  /\ "s1" \in Answered
  /\ "s2" \in Answered
  /\ inv["s1"].name = "set_merge_request_title"
  /\ inv["s2"].name = "set_merge_request_description"
  /\ GetProp(inv["s2"].reply, "title") = Str("T0")
  /\ GetProp(inv["s1"].reply, "description") = Str("D1")
  /\ store = [title |-> Str("T1"), description |-> Str("D1")]

(***************************************************************************)
(* C21 (as claimed): on an invocation of a registered tool that supplies   *)
(* every required argument, the "js" and the "ts" variant issue the same   *)
(* provider call with the same parameters (the position of a diff comment  *)
(* compared under the provider's own names of its members) and, for the    *)
(* same answer of the provider, return the same result.                    *)
(***************************************************************************)
\* The provider's name of a position member given in camelCase.
C21_ProviderName(k) ==
  CASE k = "baseSha" -> "base_sha"
    [] k = "startSha" -> "start_sha"
    [] k = "headSha" -> "head_sha"
    [] k = "oldPath" -> "old_path"
    [] k = "newPath" -> "new_path"
    [] k = "positionType" -> "position_type"
    [] k = "newLine" -> "new_line"
    [] OTHER -> k

\* A call with the members of its position, if it has one, under the provider's names.
C21_Normal(call) ==
  IF call.fn = "MergeRequestDiscussions.create" /\ Len(call.params) = 4
  THEN LET position == GetProp(call.params[4], "position")
       IN [call EXCEPT !.params[4] =
             Rec(<<"position">>,
                 <<Rec([i \in DOMAIN position.keys |-> C21_ProviderName(position.keys[i])],
                       [i \in DOMAIN position.keys |-> position.val[position.keys[i]]])>>)]
  ELSE call

\* What variant v does with the request of invocation i up to its await.
C21_First(v, i) ==
  IF v = "js" THEN SwitchJS(i.name, i.args).out ELSE RegisteredToolTS(i.name, i.args).out

\* The provider calls variant v issues for the request of invocation i.
C21_Calls(v, i) ==
  IF C21_First(v, i).k = "await" THEN <<C21_Normal(C21_First(v, i).call)>> ELSE <<>>

\* The result variant v returns for the request of invocation i when the
\* provider answers its call as it answered i.
C21_Result(v, i) ==
  IF C21_First(v, i).k # "await" THEN Catch(C21_First(v, i))
  ELSE IF i.reply = None THEN Catch(Throw(i.error))
  ELSE Catch(IF v = "js" THEN SwitchJSResume(i.name, i.args, i.reply)
             ELSE RegisteredToolTSResume(i.name, i.args, i.reply))

C21_VariantsEquivalent ==
  \A s \in Active :
    C18_AllSupplied(s) =>
      /\ C21_Calls("js", inv[s]) = C21_Calls("ts", inv[s])
      /\ s \in Finished =>
           /\ inv[s].outcome = C21_Result(variant, inv[s])
           /\ C21_Result("js", inv[s]) = C21_Result("ts", inv[s])

====
